---- MODULE Spec2Model ----
(***************************************************************************)
(* minesim: a discrete-event simulator of a proof-of-work mining network.  *)
(*                                                                         *)
(* The model follows the latest engine of the repository (the one with     *)
(* cleanBlocks, src/unnamed/part_001 lines 376-782): the global struct g,  *)
(* the event heap, relay, startMining, cleanBlocks and the main loop.      *)
(* Simulated time is a float64 in the source; here it is a natural number  *)
(* and a solve-time draw -ln(1-u) is a value of Draws.                     *)
(***************************************************************************)
EXTENDS Integers, Sequences, FiniteSets, TLC

(* ------------------------------ bounds -------------------------------- *)

\* -h: the main loop runs while g.maxHeight < g.stopheight.
StopHeight == 5

\* The source prunes while g.maxHeight % 10000 == 0; the period is scaled
\* down so that pruning at a height above zero is within reach.
PruneInterval == 2

\* Events later than this horizon are not popped.
MaxTime == 16

\* -i: the average block interval.
BlockInterval == 1

\* The values -ln(1-u) a draw of rand.Float64() can give (any real >= 0 in
\* the source).
SmallDraw == 1
BigDraw == 4
Draws == {SmallDraw, BigDraw}

\* A third value, drawn on the network of the two-miner scenario only.
MidDraw == 2

(* ------------------------- program constants -------------------------- *)

\* g.baseblockid = 1000: the id of the genesis block.
GenesisId == 1000

\* The outcome of indexing g.blocks outside its bounds (a Go run-time panic).
Panic == -1

(* ------------------------------ topology ------------------------------ *)

Peer(m, d) == [miner |-> m, delay |-> d]

\* One line of the network file: hashrate, then (peer, delay) pairs.
Line(h, ps) == [hashrate |-> h, peers |-> ps]

\* A ring 0 -> 1 -> 2 -> 0 whose last link is slow.
RingNet == << Line(1, <<Peer(1, 1)>>), Line(1, <<Peer(2, 1)>>), Line(1, <<Peer(0, 6)>>) >>

\* Two miners that relay to each other; miner 0 also lists itself, and
\* lists miner 1 twice.
PairNet == << Line(1, <<Peer(1, 2), Peer(0, 1), Peer(1, 2)>>), Line(1, <<Peer(0, 2)>>) >>

\* Two miners that relay to each other, one way slower than the other.
TwoNet == << Line(1, <<Peer(1, 3)>>), Line(1, <<Peer(0, 1)>>) >>

\* One miner, no peers.
SoloNet == << Line(1, << >>) >>

\* Two miners of equal hashrate, with peer edges in both directions of one
\* delay, long enough for a block to be mined while another is on its way.
DuelDelay == 3
DuelNet == << Line(1, <<Peer(1, DuelDelay)>>), Line(1, <<Peer(0, DuelDelay)>>) >>

\* Three miners; no miner lists miner 0 as a peer, miners 1 and 2 list each
\* other.
SourceNet == << Line(1, <<Peer(1, 1)>>), Line(1, <<Peer(2, 1)>>), Line(1, <<Peer(1, 2)>>) >>

Networks == {RingNet, PairNet, TwoNet, SoloNet, DuelNet, SourceNet}

\* A delay is read with strconv.ParseFloat and not checked: a negative delay
\* passes the reader.
BackNet == << Line(1, <<Peer(1, -1)>>), Line(1, <<Peer(0, 1)>>) >>

\* The networks above, all with delays >= 0, and one the reader accepts though
\* a delay is negative.
AcceptedNetworks == Networks \union {BackNet}

VARIABLES
    g,        \* the simulator's global struct
    pc,       \* where main is: "start", "loop", "pop", "done", "panic"
    started,  \* how many miners the start-up loop has started
    step,     \* the branch main took last, the event it popped, the draw it used
    tape,     \* the draws main has used, in the order it used them
    ghist,    \* the blocks created and the tip switches, in order
    tied,     \* main has popped an event while another had the same timestamp
    pops,     \* how many events main has popped
    fifo,     \* the events of g.eventlist, in the order they were pushed
    noskip    \* a second engine, whose relay skips nothing, run on the same draws

vars == <<g, pc, started, step, tape, ghist, tied, pops, fifo, noskip>>

\* The variables of the comparison with the second engine.
pair == <<tape, ghist, tied, pops, fifo, noskip>>

(* --------------------------- block arena ------------------------------ *)

validblock(G, bid) ==
    bid >= G.baseblockid /\ bid - G.baseblockid < Len(G.blocks)

getblock(G, bid) == G.blocks[bid - G.baseblockid + 1]

getheight(G, bid) == G.blocks[bid - G.baseblockid + 1].height

(* ------------------- eventlist and container/heap --------------------- *)
\* Indices are the source's 0-based indices into the slice.

Less(e, i, j) == e[i + 1].when < e[j + 1].when

Swap(e, i, j) == [e EXCEPT ![i + 1] = e[j + 1], ![j + 1] = e[i + 1]]

RECURSIVE up(_, _)
up(e, j) ==
    LET i == IF j = 0 THEN 0 ELSE (j - 1) \div 2
    IN  IF i = j \/ ~Less(e, j, i) THEN e ELSE up(Swap(e, i, j), i)

RECURSIVE down(_, _, _)
down(e, i, n) ==
    LET j1 == 2 * i + 1
        j == IF j1 + 1 < n /\ Less(e, j1 + 1, j1) THEN j1 + 1 ELSE j1
    IN  IF j1 >= n THEN e
        ELSE IF ~Less(e, j, i) THEN e
        ELSE down(Swap(e, i, j), j, n)

\* heap.Push(&g.eventlist, x)
heapPush(e, x) == up(Append(e, x), Len(e))

\* heap.Pop(&g.eventlist): the event returned, and the list left.
heapTop(e) == down(Swap(e, 0, Len(e) - 1), 0, Len(e) - 1)[Len(e)]

heapRest(e) == SubSeq(down(Swap(e, 0, Len(e) - 1), 0, Len(e) - 1), 1, Len(e) - 1)

(* ------------------------------- relay -------------------------------- *)

\* The relayed block arrives at once: the peer's delay is left out.
relayNow(G, p, newblockid) ==
    [to |-> p.miner, mining |-> FALSE, when |-> G.currenttime, bid |-> newblockid]

RelayEvent(G, p, newblockid) ==
    [to |-> p.miner, mining |-> FALSE, when |-> G.currenttime + p.delay, bid |-> newblockid]

\* The body of relay's loop with the event addressed to the first miner of
\* the file, whatever the peer.
relayToFirst(G, p, newblockid) ==
    IF getheight(G, G.miners[0].tip) < getheight(G, newblockid)
    THEN [G EXCEPT !.eventlist = heapPush(@, RelayEvent(G, Peer(0, p.delay), newblockid))]
    ELSE G

\* The body of relay's loop for the peer p.
relayTo(G, p, newblockid) ==
    IF getheight(G, G.miners[p.miner].tip) < getheight(G, newblockid)
    THEN [G EXCEPT !.eventlist = heapPush(@, RelayEvent(G, p, newblockid))]
    ELSE G

RECURSIVE relayFrom(_, _, _, _)
relayFrom(G, mi, newblockid, k) ==
    IF k > Len(G.miners[mi].peers) THEN G
    ELSE relayFrom(relayTo(G, G.miners[mi].peers[k], newblockid), mi, newblockid, k + 1)

relay(G, mi, newblockid) == relayFrom(G, mi, newblockid, 1)

(* ---------------------------- startMining ----------------------------- *)

\* solvetime for the draw L = -ln(1-u); the networks keep the division exact.
solvetime(G, mi, L) == (L * G.blockinterval * G.totalhash) \div G.miners[mi].hashrate

startMining(G, mi, bid, L) ==
    [G EXCEPT !.miners[mi].tip = bid,
              !.eventlist = heapPush(@, [to |-> mi, mining |-> TRUE,
                                         when |-> G.currenttime + solvetime(G, mi, L),
                                         bid |-> bid])]

(* ---------------------------- cleanBlocks ----------------------------- *)

Miners(G) == DOMAIN G.miners

minheight(G) ==
    CHOOSE h \in {getheight(G, G.miners[mi].tip) : mi \in Miners(G)} :
        \A mi \in Miners(G) : h <= getheight(G, G.miners[mi].tip)

\* Move down from bid until its height is at most h.
RECURSIVE moveDown(_, _, _)
moveDown(G, bid, h) ==
    IF ~validblock(G, bid) THEN Panic
    ELSE IF getheight(G, bid) > h THEN moveDown(G, getblock(G, bid).parent, h)
    ELSE bid

\* Everyone moves down one until all the blockAtSameHeight[] are equal.
RECURSIVE branchPoint(_, _)
branchPoint(G, blockAtSameHeight) ==
    IF \E i \in DOMAIN blockAtSameHeight : ~validblock(G, blockAtSameHeight[i]) THEN Panic
    ELSE IF \A i \in DOMAIN blockAtSameHeight : blockAtSameHeight[i] = blockAtSameHeight[0]
    THEN blockAtSameHeight[0]
    ELSE branchPoint(G, [i \in DOMAIN blockAtSameHeight |->
                             getblock(G, blockAtSameHeight[i]).parent])

\* The new base taken from the first miner alone.
firstTip(G) == G.miners[0].tip

\* The new base without the search for the branch point: the first miner's
\* block at the minimum height.
evenFirstTip(G) == moveDown(G, G.miners[0].tip, minheight(G))

newbaseblockid(G) ==
    branchPoint(G, [mi \in Miners(G) |-> moveDown(G, G.miners[mi].tip, minheight(G))])

\* giveCredits with the loop test after the increment: g.blocks[0] is credited
\* too, at every call.
RECURSIVE creditsWithBase(_, _)
creditsWithBase(G, bid) ==
    LET b == getblock(G, bid)
        rest == IF bid = G.baseblockid THEN G.miners ELSE creditsWithBase(G, b.parent)
    IN  IF b.miner \in DOMAIN rest THEN [rest EXCEPT ![b.miner].credit = @ + 1] ELSE rest

\* giveCredits starting below the new base block.
RECURSIVE creditsBelow(_, _)
creditsBelow(G, bid) ==
    IF bid = G.baseblockid THEN G.miners
    ELSE LET b == getblock(G, bid)
         IN  IF b.parent = G.baseblockid THEN G.miners
             ELSE [creditsBelow(G, b.parent) EXCEPT ![getblock(G, b.parent).miner].credit = @ + 1]

\* giveCredits with an if for its loop: the new base block alone is credited.
creditsOnce(G, bid) ==
    IF bid = G.baseblockid THEN G.miners
    ELSE [G.miners EXCEPT ![getblock(G, bid).miner].credit = @ + 1]

\* Give credits to miners, from the block bid down to g.blocks[0] (excluded).
RECURSIVE giveCredits(_, _)
giveCredits(G, bid) ==
    IF bid = G.baseblockid THEN G.miners
    ELSE LET b == getblock(G, bid)
         IN  [giveCredits(G, b.parent) EXCEPT ![b.miner].credit = @ + 1]

\* minedBelow with the new base block counted too (i <= n).
minedThrough(G, n) == Cardinality({i \in 1..(n + 1) : G.blocks[i].height > 0})

\* The number of non-genesis blocks among g.blocks[0 .. n-1].
minedBelow(G, n) == Cardinality({i \in 1..n : G.blocks[i].height > 0})

\* cleanBlocks with the arena cut one block late: the new base block is
\* discarded too.
cleanBlocksPastBase(G) ==
    LET nb == newbaseblockid(G)
    IN  [G EXCEPT !.miners = giveCredits(G, nb),
                  !.mined = @ + minedBelow(G, nb - G.baseblockid),
                  !.blocks = IF Len(@) > nb - G.baseblockid + 1
                             THEN SubSeq(@, nb - G.baseblockid + 2, Len(@)) ELSE @,
                  !.baseblockid = nb]

cleanBlocks(G) ==
    LET nb == newbaseblockid(G)
    IN  [G EXCEPT !.miners = giveCredits(G, nb),
                  !.mined = @ + minedBelow(G, nb - G.baseblockid),
                  !.blocks = SubSeq(@, nb - G.baseblockid + 1, Len(@)),
                  !.baseblockid = nb]

\* cleanBlocks indexes g.blocks out of bounds.
cleanPanics(G) ==
    IF newbaseblockid(G) = Panic THEN TRUE ELSE ~validblock(G, newbaseblockid(G))

(* ------------------------------ main ---------------------------------- *)

\* The network is the one of the two-miner scenario.
OnDuelNet(G) ==
    [mi \in Miners(G) |-> G.miners[mi].peers] = [mi \in 0..1 |-> DuelNet[mi + 1].peers]

\* The values of -ln(1-u) tried on the network of G.
DrawsOn(G) == IF OnDuelNet(G) THEN Draws \union {MidDraw} ELSE Draws

\* The state after init() and after the network file has been read.
InitG(net) ==
    [ blockinterval |-> BlockInterval,
      stopheight    |-> StopHeight,
      currenttime   |-> 0,
      blocks        |-> << [parent |-> 0, height |-> 0, miner |-> -1, time |-> 0] >>,
      miners        |-> [mi \in 0..(Len(net) - 1) |->
                            [hashrate |-> net[mi + 1].hashrate, mined |-> 0, credit |-> 0,
                             peers |-> net[mi + 1].peers, tip |-> 0]],
      eventlist     |-> << >>,
      maxHeight     |-> 0,
      baseblockid   |-> GenesisId,
      maxreorg      |-> 0,
      totalhash     |-> LET RECURSIVE sum(_)
                            sum(k) == IF k = 0 THEN 0 ELSE net[k].hashrate + sum(k - 1)
                        IN  sum(Len(net)),
      mined         |-> 0 ]

NoEvent == [to |-> -1, mining |-> FALSE, when |-> 0, bid |-> 0]

\* No draw was used.
NoDraw == 0

Init ==
    /\ g \in {InitG(net) : net \in Networks}
    /\ pc = "start"
    /\ started = 0
    /\ step = [kind |-> "init", ev |-> NoEvent, draw |-> NoDraw]
    /\ tape = << >>
    /\ ghist = << >>
    /\ tied = FALSE
    /\ pops = 0
    /\ fifo = << >>
    /\ noskip = [g |-> g, pc |-> "start", started |-> 0, pos |-> 0, pops |-> 0,
                 hist |-> << >>]

\* Start all miners off mining their first blocks.
StartMiner ==
    /\ pc = "start"
    /\ \E L \in DrawsOn(g) :
          /\ g' = startMining(g, started, g.baseblockid, L)
          /\ step' = [kind |-> "start", ev |-> NoEvent, draw |-> L]
    /\ started' = started + 1
    /\ pc' = IF started + 1 = Cardinality(Miners(g)) THEN "loop" ELSE "start"

Running(G) == G.maxHeight < G.stopheight

\* The test at the top of an iteration of the main event loop.
PruneDue(G) == G.maxHeight % PruneInterval = 0

\* "if g.maxHeight%10000 == 0 { cleanBlocks() }"
Prune ==
    /\ pc = "loop" /\ Running(g) /\ PruneDue(g)
    /\ IF cleanPanics(g)
       THEN g' = g /\ pc' = "panic"
       ELSE g' = cleanBlocks(g) /\ pc' = "pop"
    /\ step' = [kind |-> "prune", ev |-> NoEvent, draw |-> NoDraw]
    /\ UNCHANGED started

\* Main is about to pop an event.
AtPop ==
    /\ \/ pc = "pop"
       \/ pc = "loop" /\ Running(g) /\ ~PruneDue(g)
    /\ g.eventlist # << >>
    /\ heapTop(g.eventlist).when <= MaxTime

\* ev := heap.Pop(&g.eventlist); g.currenttime = ev.when
popped(G) == [G EXCEPT !.eventlist = heapRest(@), !.currenttime = heapTop(G.eventlist).when]

\* The next id, counted from the genesis id without the base.
newidInArena(G) == GenesisId + Len(G.blocks)

\* The id the next block gets.
newid(G) == G.baseblockid + Len(G.blocks)

\* The block made with its height taken from g.maxHeight.
newblockAtMax(G, ev) ==
    LET mi == ev.to
        height == G.maxHeight + 1
    IN  [G EXCEPT !.miners[mi].mined = @ + 1,
                  !.maxHeight = IF @ < height THEN height ELSE @,
                  !.blocks = Append(@, [parent |-> G.miners[mi].tip,
                                        height |-> height,
                                        miner |-> mi,
                                        time |-> G.currenttime])]

\* The block made without "height++": it gets the height of its parent.
newblockFlat(G, ev) ==
    LET mi == ev.to
        height == getheight(G, G.miners[mi].tip)
    IN  [G EXCEPT !.miners[mi].mined = @ + 1,
                  !.maxHeight = IF @ < height + 1 THEN height + 1 ELSE @,
                  !.blocks = Append(@, [parent |-> G.miners[mi].tip,
                                        height |-> height,
                                        miner |-> mi,
                                        time |-> G.currenttime])]

\* The mining branch up to the append: count the block, make it.
newblock(G, ev) ==
    LET mi == ev.to
        height == getheight(G, G.miners[mi].tip) + 1
    IN  [G EXCEPT !.miners[mi].mined = @ + 1,
                  !.maxHeight = IF @ < height THEN height ELSE @,
                  !.blocks = Append(@, [parent |-> G.miners[mi].tip,
                                        height |-> height,
                                        miner |-> mi,
                                        time |-> G.currenttime])]

\* The mining branch when the event is not stale.
mined(G, ev, L) ==
    startMining(relay(newblock(G, ev), ev.to, newid(G)), ev.to, newid(G), L)

\* Move back on the "to" chain until even with the current block.
RECURSIVE evenWith(_, _, _)
evenWith(G, t, h) ==
    IF ~validblock(G, t) THEN Panic
    ELSE IF getheight(G, t) > h THEN evenWith(G, getblock(G, t).parent, h)
    ELSE t

\* From the same height, count blocks until the branches meet.
RECURSIVE countReorg(_, _, _)
countReorg(G, t, c) ==
    IF ~validblock(G, t) \/ ~validblock(G, c) THEN Panic
    ELSE IF t = c THEN 0
    ELSE LET r == countReorg(G, getblock(G, t).parent, getblock(G, c).parent)
         IN  IF r = Panic THEN Panic ELSE r + 1

\* The reorg depth with the steps of the first loop counted too.
reorgWithEvening(G, c, t) ==
    LET r == countReorg(G, evenWith(G, t, getheight(G, c)), c)
    IN  IF r = Panic THEN Panic ELSE r + (getheight(G, t) - getheight(G, c))

\* The reorg depth of switching from the tip c to the block t.
reorgDepth(G, c, t) == countReorg(G, evenWith(G, t, getheight(G, c)), c)

\* A received block of the tip's height counts as better.
ignoredLower(G, ev) ==
    IF ~validblock(G, ev.bid) THEN TRUE
    ELSE getheight(G, ev.bid) < getheight(G, G.miners[ev.to].tip)

\* Only a block that is not in g.blocks is ignored.
ignoredInvalid(G, ev) == ~validblock(G, ev.bid)

\* The received block is not better than the tip.
ignored(G, ev) ==
    IF ~validblock(G, ev.bid) THEN TRUE
    ELSE getheight(G, ev.bid) <= getheight(G, G.miners[ev.to].tip)

\* g.maxreorg keeps the depth of the last reorg.
reorgedLast(G, ev) ==
    [G EXCEPT !.maxreorg = reorgDepth(G, G.miners[ev.to].tip, ev.bid)]

\* The peer branch up to the relay: the reorg depth and g.maxreorg.
reorged(G, ev) ==
    LET reorg == reorgDepth(G, G.miners[ev.to].tip, ev.bid)
    IN  [G EXCEPT !.maxreorg = IF @ < reorg THEN reorg ELSE @]

\* The peer branch without startMining: the miner keeps the mining event it
\* had, on its old tip.
switchedKeepsEvent(G, ev, L) ==
    [relay(reorged(G, ev), ev.to, ev.bid) EXCEPT !.miners[ev.to].tip = ev.bid]

\* The peer branch when the block is better.
switched(G, ev, L) ==
    startMining(relay(reorged(G, ev), ev.to, ev.bid), ev.to, ev.bid, L)

\* A stale mining event starts the miner again on its tip.
StaleRestarts ==
    /\ AtPop
    /\ LET ev == heapTop(g.eventlist)
       IN  /\ ev.mining /\ ev.bid # g.miners[ev.to].tip
           /\ \E L \in DrawsOn(g) : g' = startMining(popped(g), ev.to, g.miners[ev.to].tip, L)
    /\ pc' = "loop"
    /\ step' = [kind |-> "stale", ev |-> heapTop(g.eventlist), draw |-> NoDraw]
    /\ UNCHANGED started

\* m.mined++ ahead of the test for a stale event: a stale event counts too.
StaleCounted ==
    /\ AtPop
    /\ LET ev == heapTop(g.eventlist)
       IN  /\ ev.mining /\ ev.bid # g.miners[ev.to].tip
           /\ g' = [popped(g) EXCEPT !.miners[ev.to].mined = @ + 1]
    /\ pc' = "loop"
    /\ step' = [kind |-> "stale", ev |-> heapTop(g.eventlist), draw |-> NoDraw]
    /\ UNCHANGED started

\* A stale mining event is ignored.
MinedStale ==
    /\ AtPop
    /\ LET ev == heapTop(g.eventlist)
       IN  /\ ev.mining /\ ev.bid # g.miners[ev.to].tip
           /\ g' = popped(g)
    /\ pc' = "loop"
    /\ step' = [kind |-> "stale", ev |-> heapTop(g.eventlist), draw |-> NoDraw]
    /\ UNCHANGED started

MinedBlock ==
    /\ AtPop
    /\ LET ev == heapTop(g.eventlist)
       IN  /\ ev.mining /\ ev.bid = g.miners[ev.to].tip
           /\ \E L \in DrawsOn(g) :
                 /\ g' = mined(popped(g), ev, L)
                 /\ step' = [kind |-> "mined", ev |-> ev, draw |-> L]
    /\ pc' = "loop"
    /\ UNCHANGED started

ReceivedIgnored ==
    /\ AtPop
    /\ LET ev == heapTop(g.eventlist)
       IN  /\ ~ev.mining /\ ignored(g, ev)
           /\ g' = popped(g)
    /\ pc' = "loop"
    /\ step' = [kind |-> "ignored", ev |-> heapTop(g.eventlist), draw |-> NoDraw]
    /\ UNCHANGED started

ReceivedSwitch ==
    /\ AtPop
    /\ LET ev == heapTop(g.eventlist)
       IN  /\ ~ev.mining /\ ~ignored(g, ev)
           /\ reorgDepth(g, g.miners[ev.to].tip, ev.bid) # Panic
           /\ \E L \in DrawsOn(g) :
                 /\ g' = switched(popped(g), ev, L)
                 /\ step' = [kind |-> "switch", ev |-> ev, draw |-> L]
    /\ pc' = "loop"
    /\ UNCHANGED started

\* The reorg walk indexes g.blocks below g.baseblockid.
ReceivedPanic ==
    /\ AtPop
    /\ LET ev == heapTop(g.eventlist)
       IN  /\ ~ev.mining /\ ~ignored(g, ev)
           /\ reorgDepth(g, g.miners[ev.to].tip, ev.bid) = Panic
           /\ g' = popped(g)
    /\ pc' = "panic"
    /\ step' = [kind |-> "panic", ev |-> heapTop(g.eventlist), draw |-> NoDraw]
    /\ UNCHANGED started

\* The loop has ended: the last cleanBlocks before the summary.
Finish ==
    /\ pc = "loop" /\ ~Running(g)
    /\ IF cleanPanics(g)
       THEN g' = g /\ pc' = "panic"
       ELSE g' = cleanBlocks(g) /\ pc' = "done"
    /\ step' = [kind |-> "finish", ev |-> NoEvent, draw |-> NoDraw]
    /\ UNCHANGED started

Next ==
    \/ StartMiner /\ UNCHANGED pair
    \/ Prune /\ UNCHANGED pair
    \/ MinedStale /\ UNCHANGED pair
    \/ MinedBlock /\ UNCHANGED pair
    \/ ReceivedIgnored /\ UNCHANGED pair
    \/ ReceivedSwitch /\ UNCHANGED pair
    \/ ReceivedPanic /\ UNCHANGED pair
    \/ Finish /\ UNCHANGED pair

Spec == Init /\ [][Next]_vars

\* Main has a step to take: a miner to start, the last cleanBlocks to run,
\* cleanBlocks to run at the top of an iteration, or an event to pop.
CanStep ==
    \/ pc = "start"
    \/ pc = "loop" /\ ~Running(g)
    \/ pc = "loop" /\ Running(g) /\ PruneDue(g)
    \/ AtPop

\* The popped events are counted.
Counted ==
    /\ pops' = IF step'.ev = NoEvent THEN pops ELSE pops + 1
    /\ UNCHANGED <<tape, ghist, tied, fifo, noskip>>

LiveNext ==
    \/ StartMiner /\ Counted
    \/ Prune /\ Counted
    \/ MinedStale /\ Counted
    \/ MinedBlock /\ Counted
    \/ ReceivedIgnored /\ Counted
    \/ ReceivedSwitch /\ Counted
    \/ ReceivedPanic /\ Counted
    \/ Finish /\ Counted

\* A step of main, by what every step changes: where main is, the miners
\* started, or the events popped.
Moves ==
    /\ CanStep
    /\ pc' \in {"start", "loop", "pop", "done", "panic"}
    /\ started' \in {started, started + 1}
    /\ pops' \in {pops, pops + 1}

\* Main is one loop and nothing else runs: it goes on for as long as it has a
\* step to take.
SpecLive == Init /\ [][LiveNext]_vars /\ WF_<<pc, started, pops>>(Moves)

\* Main on every network the reader accepts.
InitAccepted ==
    /\ g \in {InitG(net) : net \in AcceptedNetworks}
    /\ pc = "start"
    /\ started = 0
    /\ step = [kind |-> "init", ev |-> NoEvent, draw |-> NoDraw]
    /\ tape = << >>
    /\ ghist = << >>
    /\ tied = FALSE
    /\ pops = 0
    /\ fifo = << >>
    /\ noskip = [g |-> g, pc |-> "start", started |-> 0, pos |-> 0, pops |-> 0,
                 hist |-> << >>]

SpecAccepted == InitAccepted /\ [][Next]_vars

(* ----------------------------- the summary ---------------------------- *)
\* What main prints once the loop has ended and cleanBlocks has run.

\* "mined-blocks": g.mined.
minedblocks(G) == G.mined

bestchainblocks(G) == G.blocks[1].height

\* "stale-blocks"
staleblocks(G) == G.mined - bestchainblocks(G)

\* "total-simtime": the time of the base block.
totalsimtime(G) == G.blocks[1].time

(* ------------------ the engine whose relay skips nothing --------------- *)
\* The relay of src/minesim.go pushes an event for every peer; the second
\* engine is the main loop above with that relay, run on the draws of the
\* tape once main has ended.

RECURSIVE relayAllFrom(_, _, _, _)
relayAllFrom(G, mi, newblockid, k) ==
    IF k > Len(G.miners[mi].peers) THEN G
    ELSE relayAllFrom([G EXCEPT !.eventlist =
                           heapPush(@, RelayEvent(G, G.miners[mi].peers[k], newblockid))],
                      mi, newblockid, k + 1)

relayAll(G, mi, newblockid) == relayAllFrom(G, mi, newblockid, 1)

minedAll(G, ev, L) ==
    startMining(relayAll(newblock(G, ev), ev.to, newid(G)), ev.to, newid(G), L)

switchedAll(G, ev, L) ==
    startMining(relayAll(reorged(G, ev), ev.to, ev.bid), ev.to, ev.bid, L)

\* One step of the second engine E on the draws tp: the start-up loop, the
\* test at the top of the loop, or one popped event.
noSkipStep(E, tp) ==
    LET G == E.g
        hasDraw == E.pos < Len(tp)
        L == tp[E.pos + 1]
        lost == [E EXCEPT !.pc = "diverged"]
    IN  IF E.pc = "start"
        THEN IF ~hasDraw THEN lost
             ELSE [E EXCEPT !.g = startMining(G, E.started, G.baseblockid, L),
                            !.started = @ + 1,
                            !.pos = @ + 1,
                            !.pc = IF E.started + 1 = Cardinality(Miners(G))
                                   THEN "loop" ELSE "start"]
        ELSE IF E.pc = "loop" /\ ~Running(G)
        THEN IF cleanPanics(G) THEN [E EXCEPT !.pc = "panic"]
             ELSE [E EXCEPT !.g = cleanBlocks(G), !.pc = "done"]
        ELSE IF E.pc = "loop" /\ PruneDue(G)
        THEN IF cleanPanics(G) THEN [E EXCEPT !.pc = "panic"]
             ELSE [E EXCEPT !.g = cleanBlocks(G), !.pc = "pop"]
        ELSE IF G.eventlist = << >> THEN lost
        ELSE LET ev == heapTop(G.eventlist)
                 P == popped(G)
                 T == [E EXCEPT !.pops = @ + 1]
             IN  IF ev.when > MaxTime THEN lost
                 ELSE IF ev.mining
                 THEN IF ev.bid # G.miners[ev.to].tip
                      THEN [T EXCEPT !.g = P, !.pc = "loop"]
                      ELSE IF ~hasDraw THEN lost
                      ELSE [T EXCEPT !.g = minedAll(P, ev, L),
                                     !.pc = "loop",
                                     !.pos = @ + 1,
                                     !.hist = Append(@, <<"mined", ev.to, newid(P), ev.when>>)]
                 ELSE IF ignored(G, ev)
                 THEN [T EXCEPT !.g = P, !.pc = "loop"]
                 ELSE IF reorgDepth(G, G.miners[ev.to].tip, ev.bid) = Panic
                 THEN [T EXCEPT !.g = P, !.pc = "panic"]
                 ELSE IF ~hasDraw THEN lost
                 ELSE [T EXCEPT !.g = switchedAll(P, ev, L),
                                !.pc = "loop",
                                !.pos = @ + 1,
                                !.hist = Append(@, <<"switch", ev.to, ev.bid, ev.when>>)]

\* The events relay(mi, newblockid) pushes, in the order it pushes them.
RECURSIVE relayLog(_, _, _, _)
relayLog(G, mi, newblockid, k) ==
    IF k > Len(G.miners[mi].peers) THEN << >>
    ELSE LET p == G.miners[mi].peers[k]
             rest == relayLog(G, mi, newblockid, k + 1)
         IN  IF getheight(G, G.miners[p.miner].tip) < getheight(G, newblockid)
             THEN <<RelayEvent(G, p, newblockid)>> \o rest
             ELSE rest

\* The event startMining(mi, bid) pushes for the draw L.
miningEvent(G, mi, bid, L) ==
    [to |-> mi, mining |-> TRUE, when |-> G.currenttime + solvetime(G, mi, L), bid |-> bid]

\* The events a step of main pushes, in the order of its heap.Push calls:
\* relay's, then startMining's.  G1 is the state before the step, st the
\* record of the step, n the miner the start-up loop is at.
pushedBy(G1, st, n) ==
    IF st.kind = "start"
    THEN <<miningEvent(G1, n, G1.baseblockid, st.draw)>>
    ELSE IF st.kind = "mined"
    THEN LET P == popped(G1)
         IN  relayLog(newblock(P, st.ev), st.ev.to, newid(P), 1)
                 \o <<miningEvent(P, st.ev.to, newid(P), st.draw)>>
    ELSE IF st.kind = "switch"
    THEN LET P == popped(G1)
         IN  relayLog(P, st.ev.to, st.ev.bid, 1)
                 \o <<miningEvent(P, st.ev.to, st.ev.bid, st.draw)>>
    ELSE << >>

\* The sequence s without its first element equal to x.
RECURSIVE removeFirst(_, _)
removeFirst(s, x) ==
    IF s = << >> THEN s
    ELSE IF Head(s) = x THEN Tail(s)
    ELSE <<Head(s)>> \o removeFirst(Tail(s), x)

\* Main's step is written down: its draw on the tape, its block or switch
\* in the history.
Recorded ==
    /\ fifo' = (IF step'.ev = NoEvent THEN fifo ELSE removeFirst(fifo, step'.ev))
                   \o pushedBy(g, step', started)
    /\ tape' = IF step'.kind \in {"start", "mined", "switch"}
               THEN Append(tape, step'.draw) ELSE tape
    /\ ghist' = IF step'.kind \in {"mined", "switch"}
                THEN Append(ghist, <<step'.kind, step'.ev.to,
                                     g'.miners[step'.ev.to].tip, step'.ev.when>>)
                ELSE ghist
    /\ tied' = IF step'.ev = NoEvent THEN tied
               ELSE \/ tied
                    \/ \E i \in 2..Len(g.eventlist) : g.eventlist[i].when = step'.ev.when
    /\ pops' = IF step'.ev = NoEvent THEN pops ELSE pops + 1
    /\ UNCHANGED noskip

\* The second engine takes a step once main is done.
NoSkipRuns ==
    /\ pc = "done"
    /\ noskip.pc \in {"start", "loop", "pop"}
    /\ noskip' = noSkipStep(noskip, tape)
    /\ UNCHANGED <<g, pc, started, step, tape, ghist, tied, pops, fifo>>

PairNext ==
    \/ StartMiner /\ Recorded
    \/ Prune /\ Recorded
    \/ MinedStale /\ Recorded
    \/ MinedBlock /\ Recorded
    \/ ReceivedIgnored /\ Recorded
    \/ ReceivedSwitch /\ Recorded
    \/ ReceivedPanic /\ Recorded
    \/ Finish /\ Recorded
    \/ NoSkipRuns

SpecPair == Init /\ [][PairNext]_vars

(* --------------- the engine that credits at mining time ---------------- *)
\* src/minesim.go: credit is given when a block extends the best chain and
\* moved from branch to branch at a reorg; the loop runs -r steps; blocks are
\* pruned when all miners mine on one block.  Here g is that program's g.

\* -r: the number of simulation steps.
Repetitions == 11

\* g.baseblockid = 1: the id of the genesis block.
FirstId == 1

\* g.tips[k], 0 when k is not in the map.
tipsGet(T, k) == IF k \in DOMAIN T THEN T[k] ELSE 0

tipsSet(T, k, v) == [x \in DOMAIN T \union {k} |-> IF x = k THEN v ELSE T[x]]

\* delete(g.tips, k)
tipsDelete(T, k) == [x \in DOMAIN T \ {k} |-> T[x]]

\* stopMining without the delete: the entry of a block no miner mines on
\* stays in the map, with the count 0.
stopMiningKeepsEntry(G, mi) ==
    LET c == G.miners[mi].current
    IN  [G EXCEPT !.tips = tipsSet(@, c, tipsGet(@, c) - 1)]

stopMining(G, mi) ==
    LET c == G.miners[mi].current
        n == tipsGet(G.tips, c) - 1
    IN  [G EXCEPT !.tips = IF n = 0 THEN tipsDelete(@, c) ELSE tipsSet(@, c, n)]

\* relay of src/minesim.go: an event for every peer.
RECURSIVE relayPeers(_, _, _, _)
relayPeers(G, mi, newblockid, k) ==
    IF k > Len(G.miners[mi].peer) THEN G
    ELSE relayPeers([G EXCEPT !.eventlist =
                        heapPush(@, [when |-> G.currenttime + G.miners[mi].peer[k].delay,
                                     to |-> G.miners[mi].peer[k].miner,
                                     blockid |-> newblockid])],
                    mi, newblockid, k + 1)

\* solvetime for the draw L = -ln(1-u), with -i given (and not -d).
solvetimeOf(G, mi, L) == (L * G.blockinterval * G.totalhash) \div G.miners[mi].hashrate

\* startMining of src/minesim.go; a negative blockid means mining.
startMiningOn(G, mi, blockid, L) ==
    [G EXCEPT !.miners[mi].current = blockid,
              !.tips = tipsSet(@, blockid, tipsGet(@, blockid) + 1),
              !.eventlist = heapPush(@, [when |-> G.currenttime + solvetimeOf(G, mi, L),
                                         to |-> mi,
                                         blockid |-> -blockid])]

\* The state after init() and after the network file has been read.
InitBest(net) ==
    [ currenttime   |-> 0,
      blocks        |-> << [parent |-> 0, height |-> 0, miner |-> -1] >>,
      baseblockid   |-> FirstId,
      tips          |-> [x \in {} |-> 0],
      bestblockid   |-> FirstId,
      miners        |-> [mi \in 0..(Len(net) - 1) |->
                            [hashrate |-> net[mi + 1].hashrate, mined |-> 0, credit |-> 0,
                             peer |-> net[mi + 1].peers, current |-> 0]],
      eventlist     |-> << >>,
      blockinterval |-> BlockInterval,
      totalhash     |-> LET RECURSIVE sum(_)
                            sum(k) == IF k = 0 THEN 0 ELSE net[k].hashrate + sum(k - 1)
                        IN  sum(Len(net)),
      repetitions   |-> Repetitions,
      i             |-> 0 ]

BestNetworks == {RingNet, TwoNet, PairNet}

InitBestChain ==
    /\ g \in {InitBest(net) : net \in BestNetworks}
    /\ pc = "start"
    /\ started = 0
    /\ step = [kind |-> "init", ev |-> NoEvent, draw |-> NoDraw]
    /\ tape = << >>
    /\ ghist = << >>
    /\ tied = FALSE
    /\ pops = 0
    /\ fifo = << >>
    /\ noskip = [g |-> g, pc |-> "start", started |-> 0, pos |-> 0, pops |-> 0,
                 hist |-> << >>]

\* Start all miners off mining their first blocks (on block 1).
BestStart ==
    /\ pc = "start"
    /\ \E L \in Draws :
          /\ g' = startMiningOn(g, started, FirstId, L)
          /\ step' = [kind |-> "start", ev |-> NoEvent, draw |-> L]
    /\ started' = started + 1
    /\ pc' = IF started + 1 = Cardinality(Miners(g)) THEN "loop" ELSE "start"

\* The loop "for { if _, ok := g.tips[g.baseblockid]; ok { break };
\* g.baseblockid++; g.blocks = g.blocks[1:] }"; it stops with g.blocks empty
\* where the program runs off the slice.
RECURSIVE pruneLoop(_)
pruneLoop(G) ==
    IF G.baseblockid \in DOMAIN G.tips THEN G
    ELSE IF G.blocks = << >> THEN G
    ELSE pruneLoop([G EXCEPT !.baseblockid = @ + 1, !.blocks = Tail(@)])

\* "if len(g.tips) == 1": all miners mine on one block, the blocks before it
\* go.  With that block below the base the loop runs off the slice.
BestPrune ==
    /\ pc = "loop" /\ g.i < g.repetitions
    /\ Cardinality(DOMAIN g.tips) = 1
    /\ LET T == CHOOSE k \in DOMAIN g.tips : TRUE
       IN  IF validblock(g, T)
           THEN /\ g' = [g EXCEPT !.blocks = SubSeq(@, T - g.baseblockid + 1, Len(@)),
                                  !.baseblockid = T]
                /\ pc' = "pop"
           ELSE g' = g /\ pc' = "panic"
    /\ step' = [kind |-> "prune", ev |-> NoEvent, draw |-> NoDraw]
    /\ UNCHANGED started

\* Main is about to pop an event.
AtBestPop ==
    \/ pc = "pop"
    \/ pc = "loop" /\ g.i < g.repetitions /\ Cardinality(DOMAIN g.tips) # 1

\* event := heap.Pop(&g.eventlist); g.currenttime = event.when; and the i++
\* that ends the iteration.
poppedBest(G) ==
    [G EXCEPT !.eventlist = heapRest(@),
              !.currenttime = heapTop(G.eventlist).when,
              !.i = @ + 1]

\* The test of a block from a peer indexes g.blocks out of bounds.
receivedPanics(G, ev) ==
    IF ev.blockid >= G.baseblockid
    THEN ~validblock(G, G.miners[ev.to].current) \/ ~validblock(G, ev.blockid)
    ELSE FALSE

\* The incoming block is better.
better(G, ev) ==
    IF ev.blockid >= G.baseblockid
    THEN getheight(G, G.miners[ev.to].current) < getheight(G, ev.blockid)
    ELSE FALSE

BestReceivedIgnored ==
    /\ AtBestPop
    /\ LET ev == heapTop(g.eventlist)
       IN  /\ ev.blockid > 0
           /\ ~receivedPanics(g, ev)
           /\ ~better(g, ev)
           /\ g' = poppedBest(g)
           /\ step' = [kind |-> "ignored", ev |-> ev, draw |-> NoDraw]
    /\ pc' = "loop"
    /\ UNCHANGED started

BestReceivedSwitch ==
    /\ AtBestPop
    /\ LET ev == heapTop(g.eventlist)
       IN  /\ ev.blockid > 0
           /\ IF receivedPanics(g, ev)
              THEN /\ g' = poppedBest(g)
                   /\ pc' = "panic"
                   /\ step' = [kind |-> "panic", ev |-> ev, draw |-> NoDraw]
              ELSE /\ better(g, ev)
                   /\ \E L \in Draws :
                         /\ g' = startMiningOn(
                                     relayPeers(stopMining(poppedBest(g), ev.to),
                                                ev.to, ev.blockid, 1),
                                     ev.to, ev.blockid, L)
                         /\ step' = [kind |-> "switch", ev |-> ev, draw |-> L]
                   /\ pc' = "loop"
    /\ UNCHANGED started

\* A stale mining event is ignored.
BestMinedStale ==
    /\ AtBestPop
    /\ LET ev == heapTop(g.eventlist)
       IN  /\ ev.blockid <= 0
           /\ -ev.blockid # g.miners[ev.to].current
           /\ g' = poppedBest(g)
           /\ step' = [kind |-> "stale", ev |-> ev, draw |-> NoDraw]
    /\ pc' = "loop"
    /\ UNCHANGED started

\* The mining branch up to the tests on the best block: count the block, make
\* it, relay it, start mining on it.
minedOn(G, mi, L) ==
    LET newblockid == G.baseblockid + Len(G.blocks)
        G1 == stopMining([G EXCEPT !.miners[mi].mined = @ + 1], mi)
        G2 == [G1 EXCEPT !.blocks = Append(@, [parent |-> G.miners[mi].current,
                                               height |-> getheight(G, G.miners[mi].current) + 1,
                                               miner |-> mi])]
    IN  startMiningOn(relayPeers(G2, mi, newblockid, 1), mi, newblockid, L)

\* The lockstep walk from the old best block (dec) and the new branch (inc)
\* indexes g.blocks or g.miners out of bounds.
RECURSIVE transferPanics(_, _, _)
transferPanics(G, dec, inc) ==
    IF dec = inc THEN FALSE
    ELSE IF ~validblock(G, dec) \/ ~validblock(G, inc) THEN TRUE
    ELSE IF getblock(G, dec).miner \notin Miners(G) THEN TRUE
    ELSE IF getblock(G, inc).miner \notin Miners(G) THEN TRUE
    ELSE transferPanics(G, getblock(G, dec).parent, getblock(G, inc).parent)

\* The walk without "credit--": the new branch is credited, the old branch
\* keeps its credit.
RECURSIVE transferNoDec(_, _, _, _)
transferNoDec(G, M, dec, inc) ==
    IF dec = inc THEN M
    ELSE LET db == getblock(G, dec)
             ib == getblock(G, inc)
         IN  transferNoDec(G, [M EXCEPT ![ib.miner].credit = @ + 1], db.parent, ib.parent)

\* The walk that moves credit from the old best branch to the new one.
RECURSIVE transfer(_, _, _, _)
transfer(G, M, dec, inc) ==
    IF dec = inc THEN M
    ELSE LET db == getblock(G, dec)
             ib == getblock(G, inc)
         IN  transfer(G,
                      [[M EXCEPT ![db.miner].credit = @ - 1]
                          EXCEPT ![ib.miner].credit = @ + 1],
                      db.parent, ib.parent)

\* A mining event on the miner's current block.
AtBestMined(ev) ==
    /\ AtBestPop
    /\ ev.blockid <= 0
    /\ -ev.blockid = g.miners[ev.to].current

\* The mining branch indexes g.blocks out of bounds: at getheight(m.current),
\* or at getheight(g.bestblockid) when the miner was not on the best block.
minedPanics(G, mi) ==
    IF ~validblock(G, G.miners[mi].current) THEN TRUE
    ELSE IF G.miners[mi].current = G.bestblockid THEN FALSE
    ELSE ~validblock(G, G.bestblockid)

\* The extend branch without "g.bestblockid = m.current".
BestExtendKeepsBest ==
    /\ AtBestMined(heapTop(g.eventlist))
    /\ LET ev == heapTop(g.eventlist)
           mi == ev.to
           prev == g.miners[mi].current
       IN  /\ ~minedPanics(g, mi)
           /\ prev = g.bestblockid
           /\ \E L \in Draws :
                 /\ g' = LET G == minedOn(poppedBest(g), mi, L)
                          IN  [G EXCEPT !.miners[mi].credit = @ + 1]
                 /\ step' = [kind |-> "extend", ev |-> ev, draw |-> L]
    /\ pc' = "loop"
    /\ UNCHANGED started

\* We're extending the best chain.
BestExtend ==
    /\ AtBestMined(heapTop(g.eventlist))
    /\ LET ev == heapTop(g.eventlist)
           mi == ev.to
           prev == g.miners[mi].current
       IN  /\ ~minedPanics(g, mi)
           /\ prev = g.bestblockid
           /\ \E L \in Draws :
                 /\ g' = LET G == minedOn(poppedBest(g), mi, L)
                          IN  [G EXCEPT !.bestblockid = G.miners[mi].current,
                                        !.miners[mi].credit = @ + 1]
                 /\ step' = [kind |-> "extend", ev |-> ev, draw |-> L]
    /\ pc' = "loop"
    /\ UNCHANGED started

\* We're mining on a non-best branch.
BestNonBest ==
    /\ AtBestMined(heapTop(g.eventlist))
    /\ LET ev == heapTop(g.eventlist)
           mi == ev.to
           prev == g.miners[mi].current
       IN  /\ ~minedPanics(g, mi)
           /\ prev # g.bestblockid
           /\ getheight(g, prev) + 1 <= getheight(g, g.bestblockid)
           /\ \E L \in Draws :
                 /\ g' = minedOn(poppedBest(g), mi, L)
                 /\ step' = [kind |-> "nonbest", ev |-> ev, draw |-> L]
    /\ pc' = "loop"
    /\ UNCHANGED started

\* The current chain now has one more block than what was the best chain
\* (reorg): adjust credits.
BestReorg ==
    /\ AtBestMined(heapTop(g.eventlist))
    /\ LET ev == heapTop(g.eventlist)
           mi == ev.to
           prev == g.miners[mi].current
       IN  IF minedPanics(g, mi)
           THEN /\ g' = poppedBest(g)
                /\ pc' = "panic"
                /\ step' = [kind |-> "panic", ev |-> ev, draw |-> NoDraw]
           ELSE /\ prev # g.bestblockid
                /\ getheight(g, prev) + 1 > getheight(g, g.bestblockid)
                /\ \E L \in Draws :
                      LET G == minedOn(poppedBest(g), mi, L)
                      IN  IF transferPanics(G, G.bestblockid, prev)
                          THEN /\ g' = G
                               /\ pc' = "panic"
                               /\ step' = [kind |-> "panic", ev |-> ev, draw |-> L]
                          ELSE /\ g' = [G EXCEPT
                                          !.miners = transfer(G, [@ EXCEPT ![mi].credit = @ + 1],
                                                              G.bestblockid, prev),
                                          !.bestblockid = G.miners[mi].current]
                               /\ pc' = "loop"
                               /\ step' = [kind |-> "reorg", ev |-> ev, draw |-> L]
    /\ UNCHANGED started

\* The -r steps are done: the summary.
BestFinish ==
    /\ pc = "loop" /\ g.i >= g.repetitions
    /\ g' = g
    /\ pc' = "done"
    /\ step' = [kind |-> "finish", ev |-> NoEvent, draw |-> NoDraw]
    /\ UNCHANGED started

NextBestChain ==
    \/ BestStart /\ UNCHANGED pair
    \/ BestPrune /\ UNCHANGED pair
    \/ BestReceivedIgnored /\ UNCHANGED pair
    \/ BestReceivedSwitch /\ UNCHANGED pair
    \/ BestMinedStale /\ UNCHANGED pair
    \/ BestExtend /\ UNCHANGED pair
    \/ BestNonBest /\ UNCHANGED pair
    \/ BestReorg /\ UNCHANGED pair
    \/ BestFinish /\ UNCHANGED pair

SpecBestChain == InitBestChain /\ [][NextBestChain]_vars


\* The same program with every block it creates written down in ghist (a
\* history variable: the program discards the blocks below the base).
BestRecorded ==
    /\ ghist' = IF g'.baseblockid + Len(g'.blocks) > g.baseblockid + Len(g.blocks)
                THEN Append(ghist, [id |-> g.baseblockid + Len(g.blocks),
                                    miner |-> g'.blocks[Len(g'.blocks)].miner,
                                    parent |-> g'.blocks[Len(g'.blocks)].parent,
                                    height |-> g'.blocks[Len(g'.blocks)].height])
                ELSE ghist
    /\ UNCHANGED <<tape, tied, pops, fifo, noskip>>

NextBestHist ==
    \/ BestStart /\ BestRecorded
    \/ BestPrune /\ BestRecorded
    \/ BestReceivedIgnored /\ BestRecorded
    \/ BestReceivedSwitch /\ BestRecorded
    \/ BestMinedStale /\ BestRecorded
    \/ BestExtend /\ BestRecorded
    \/ BestNonBest /\ BestRecorded
    \/ BestReorg /\ BestRecorded
    \/ BestFinish /\ BestRecorded

SpecBestHist == InitBestChain /\ [][NextBestHist]_vars

(* ------------- the engine that prunes to a single tip ------------------ *)
\* src/unnamed/part_001, lines 1-373: the loop runs -r steps; when all miners
\* mine on one block, that block becomes the whole of g.blocks.  relay, the
\* heap and the reorg walk are those of the engine above (g.miners[mi].peers
\* stands for the field peer).  Here ghist lists every block created, in
\* order, and fifo the relayed blocks on their way: both are history
\* variables, which the program does not have.

\* Three miners: miner 0 has half of the hashrate and relays to both others,
\* miner 1 relays to miner 2 over a slower link.
LagNet == << Line(3, <<Peer(1, 5), Peer(2, 5)>>), Line(1, <<Peer(2, 7)>>), Line(2, << >>) >>

TipNetworks == {LagNet, RingNet, TwoNet}

\* The state after init() and after the network file has been read.
InitTip(net) ==
    [ blockinterval |-> BlockInterval,
      repetitions   |-> Repetitions,
      rep           |-> 0,
      currenttime   |-> 0,
      blocks        |-> << [parent |-> 0, height |-> 0, miner |-> -1] >>,
      miners        |-> [mi \in 0..(Len(net) - 1) |->
                            [hashrate |-> net[mi + 1].hashrate, mined |-> 0, credit |-> 0,
                             peers |-> net[mi + 1].peers, tip |-> 0]],
      eventlist     |-> << >>,
      baseblockid   |-> GenesisId,
      tips          |-> [x \in {} |-> 0],
      maxreorg      |-> 0,
      totalhash     |-> LET RECURSIVE sum(_)
                            sum(k) == IF k = 0 THEN 0 ELSE net[k].hashrate + sum(k - 1)
                        IN  sum(Len(net)) ]

InitSingleTip ==
    /\ g \in {InitTip(net) : net \in TipNetworks}
    /\ pc = "start"
    /\ started = 0
    /\ step = [kind |-> "init", ev |-> NoEvent, draw |-> NoDraw]
    /\ tape = << >>
    /\ ghist = << [id |-> GenesisId, miner |-> -1, height |-> 0] >>
    /\ tied = FALSE
    /\ pops = 0
    /\ fifo = << >>
    /\ noskip = [g |-> g, pc |-> "start", started |-> 0, pos |-> 0, pops |-> 0,
                 hist |-> << >>]

\* stopMining of this engine: the field is tip.
stopMiningTip(G, mi) ==
    LET c == G.miners[mi].tip
        n == tipsGet(G.tips, c) - 1
    IN  [G EXCEPT !.tips = IF n = 0 THEN tipsDelete(@, c) ELSE tipsSet(@, c, n)]

\* startMining of this engine: g.tips[m.tip]++ too.
startMiningTip(G, mi, bid, L) ==
    [startMining(G, mi, bid, L) EXCEPT !.tips = tipsSet(@, bid, tipsGet(@, bid) + 1)]

\* The block created last with the id bid: its place in ghist.
Latest(h, bid) ==
    CHOOSE k \in 1..Len(h) : h[k].id = bid /\ \A j \in (k + 1)..Len(h) : h[j].id # bid

\* The events evs as they are pushed: each with the block it relays (its
\* place in h) and the base block at that moment.
RECURSIVE Tagged(_, _, _)
Tagged(evs, h, base) ==
    IF evs = << >> THEN << >>
    ELSE <<[ev |-> Head(evs), made |-> Latest(h, Head(evs).bid), base |-> base]>>
             \o Tagged(Tail(evs), h, base)

RECURSIVE withoutFirst(_, _)
withoutFirst(s, ev) ==
    IF s = << >> THEN s
    ELSE IF Head(s).ev = ev THEN Tail(s)
    ELSE <<Head(s)>> \o withoutFirst(Tail(s), ev)

\* The history variables are left as they are.
TipSame == UNCHANGED <<tape, ghist, tied, pops, fifo, noskip>>

\* Start all miners off mining their first blocks.
TipStart ==
    /\ pc = "start"
    /\ \E L \in Draws :
          /\ g' = startMiningTip(g, started, g.baseblockid, L)
          /\ step' = [kind |-> "start", ev |-> NoEvent, draw |-> L]
    /\ started' = started + 1
    /\ pc' = IF started + 1 = Cardinality(Miners(g)) THEN "loop" ELSE "start"
    /\ TipSame

\* "if len(g.tips) == 1 && len(g.blocks) > 1"
SingleTip(G) == Cardinality(DOMAIN G.tips) = 1 /\ Len(G.blocks) > 1

\* The blocks from the tip to the base are credited and removed: the tip of
\* the first miner is all that g.blocks keeps.
pruneToTip(G) ==
    LET nb == G.miners[0].tip
    IN  [G EXCEPT !.miners = giveCredits(G, nb),
                  !.blocks = << getblock(G, nb) >>,
                  !.baseblockid = nb]

TipPrune ==
    /\ pc = "loop" /\ g.rep < g.repetitions
    /\ SingleTip(g)
    /\ g' = pruneToTip(g)
    /\ pc' = "pop"
    /\ step' = [kind |-> "prune", ev |-> NoEvent, draw |-> NoDraw]
    /\ UNCHANGED started
    /\ TipSame

\* Main is about to pop an event.
AtTipPop ==
    \/ pc = "pop"
    \/ pc = "loop" /\ g.rep < g.repetitions /\ ~SingleTip(g)

\* ev := heap.Pop(&g.eventlist); g.currenttime = ev.when; and the rep++ that
\* ends the iteration.
poppedTip(G) ==
    [G EXCEPT !.eventlist = heapRest(@),
              !.currenttime = heapTop(G.eventlist).when,
              !.rep = @ + 1]

\* A stale mining event is ignored.
TipMinedStale ==
    /\ AtTipPop
    /\ LET ev == heapTop(g.eventlist)
       IN  /\ ev.mining /\ ev.bid # g.miners[ev.to].tip
           /\ g' = poppedTip(g)
           /\ step' = [kind |-> "stale", ev |-> ev, draw |-> NoDraw]
    /\ pc' = "loop"
    /\ UNCHANGED started
    /\ TipSame

\* The mining branch up to the relay: count the block, stop mining, make it.
newblockTip(G, mi) ==
    LET T == stopMiningTip([G EXCEPT !.miners[mi].mined = @ + 1], mi)
    IN  [T EXCEPT !.blocks = Append(@, [parent |-> G.miners[mi].tip,
                                        height |-> getheight(G, G.miners[mi].tip) + 1,
                                        miner |-> mi])]

TipMined ==
    /\ AtTipPop
    /\ LET ev == heapTop(g.eventlist)
           mi == ev.to
           P == poppedTip(g)
           bid == newid(P)
           B == newblockTip(P, mi)
       IN  /\ ev.mining /\ ev.bid = g.miners[mi].tip
           /\ \E L \in Draws :
                 /\ g' = startMiningTip(relay(B, mi, bid), mi, bid, L)
                 /\ step' = [kind |-> "mined", ev |-> ev, draw |-> L]
           /\ ghist' = Append(ghist, [id |-> bid, miner |-> mi,
                                      height |-> getheight(B, bid)])
           /\ fifo' = fifo \o Tagged(relayLog(B, mi, bid, 1), ghist', B.baseblockid)
    /\ pc' = "loop"
    /\ UNCHANGED <<started, tape, tied, pops, noskip>>

\* Block received from a peer: we're already mining on a block that's at
\* least as good.
TipReceivedIgnored ==
    /\ AtTipPop
    /\ LET ev == heapTop(g.eventlist)
       IN  /\ ~ev.mining /\ ignored(g, ev)
           /\ g' = poppedTip(g)
           /\ step' = [kind |-> "ignored", ev |-> ev, draw |-> NoDraw]
           /\ fifo' = withoutFirst(fifo, ev)
    /\ pc' = "loop"
    /\ UNCHANGED <<started, tape, ghist, tied, pops, noskip>>

\* This block is better, switch to it; the reorg walk may leave g.blocks.
TipReceivedSwitch ==
    /\ AtTipPop
    /\ LET ev == heapTop(g.eventlist)
           mi == ev.to
           P == poppedTip(g)
       IN  /\ ~ev.mining /\ ~ignored(g, ev)
           /\ IF reorgDepth(g, g.miners[mi].tip, ev.bid) = Panic
              THEN /\ g' = P
                   /\ pc' = "panic"
                   /\ step' = [kind |-> "panic", ev |-> ev, draw |-> NoDraw]
              ELSE /\ \E L \in Draws :
                         /\ g' = startMiningTip(
                                     relay(stopMiningTip(reorged(P, ev), mi), mi, ev.bid),
                                     mi, ev.bid, L)
                         /\ step' = [kind |-> "switch", ev |-> ev, draw |-> L]
                   /\ pc' = "loop"
           /\ fifo' = withoutFirst(fifo, ev)
                          \o (IF pc' = "panic" THEN << >>
                              ELSE Tagged(relayLog(P, mi, ev.bid, 1), ghist, P.baseblockid))
    /\ UNCHANGED <<started, tape, ghist, tied, pops, noskip>>

\* The -r steps are done: the summary.
TipFinish ==
    /\ pc = "loop" /\ g.rep >= g.repetitions
    /\ g' = g
    /\ pc' = "done"
    /\ step' = [kind |-> "finish", ev |-> NoEvent, draw |-> NoDraw]
    /\ UNCHANGED started
    /\ TipSame

NextSingleTip ==
    \/ TipStart
    \/ TipPrune
    \/ TipMinedStale
    \/ TipMined
    \/ TipReceivedIgnored
    \/ TipReceivedSwitch
    \/ TipFinish

SpecSingleTip == InitSingleTip /\ [][NextSingleTip]_vars

(* ----------------------- the network file reader ----------------------- *)
\* main, from the scan of the network file to the start-up loop.  A file is
\* a sequence of lines, a line the sequence of its whitespace-separated
\* fields.  Here g.networkfile is the file read, and minerMap, minerIndex and
\* i are main's local variables of these names.

\* The lines the files are made of.
FileLines ==
    { <<"a", "1">>, <<"b", "2">>,
      <<"a", "1", "b", "1">>, <<"b", "1", "a", "2">>,
      <<"a", "0">>, <<"a", "-1">>, <<"a", "x">>, <<"a">>,
      <<"a", "1", "b">>, <<"a", "1", "c", "1">>, <<"a", "1", "b", "x">>,
      <<"#", "a", "1">>, << >> }

\* The greatest number of lines of a file.
MaxLines == 2

NetworkFiles ==
    UNION {[1..n -> FileLines] : n \in 1..MaxLines}

\* The decimal numerals among the fields, with their values.
Numerals == ("-1" :> -1) @@ ("0" :> 0) @@ ("1" :> 1) @@ ("2" :> 2)

\* strconv.Atoi
Atoi(field) ==
    IF field \in DOMAIN Numerals
    THEN [err |-> FALSE, val |-> Numerals[field]]
    ELSE [err |-> TRUE, val |-> 0]

\* strconv.ParseFloat(field, 64), on the fields above.
ParseFloat(field) ==
    IF field \in DOMAIN Numerals
    THEN [err |-> FALSE, val |-> Numerals[field]]
    ELSE [err |-> TRUE, val |-> 0]

\* The state after init(), before the network file is scanned.
InitReader(file) ==
    [ InitG(<< >>) EXCEPT !.miners = << >> ] @@
    [ networkfile |-> file, line |-> 0, minerMap |-> << >>, minerIndex |-> << >>,
      i |-> 0, ranged |-> {}, stderr |-> "" ]

InitNetworkFile ==
    /\ g \in {InitReader(file) : file \in NetworkFiles}
    /\ pc = "scan"
    /\ started = 0
    /\ step = [kind |-> "init", ev |-> NoEvent, draw |-> NoDraw]
    /\ tape = << >>
    /\ ghist = << >>
    /\ tied = FALSE
    /\ pops = 0
    /\ fifo = << >>
    /\ noskip = [g |-> g, pc |-> "start", started |-> 0, pos |-> 0, pops |-> 0,
                 hist |-> << >>]

\* fmt.Fprintln(os.Stderr, ...); os.Exit(1)
Exit(G, msg) == [G EXCEPT !.stderr = msg]

\* The scan of one line with no check for a name seen before: the later line
\* replaces the earlier one.
scannedOver(G) ==
    LET fields == G.networkfile[G.line + 1]
        next == [G EXCEPT !.line = @ + 1]
    IN  IF Len(fields) = 0 THEN next
        ELSE IF fields[1] = "#" THEN next
        ELSE [next EXCEPT !.minerMap = (fields[1] :> Tail(fields)) @@ @,
                          !.minerIndex = (fields[1] :> G.i) @@ @,
                          !.i = @ + 1]

\* One iteration of "for scan.Scan()".
scanned(G) ==
    LET fields == G.networkfile[G.line + 1]
        next == [G EXCEPT !.line = @ + 1]
    IN  IF Len(fields) = 0 THEN next
        ELSE IF fields[1] = "#" THEN next
        ELSE IF fields[1] \in DOMAIN G.minerMap THEN Exit(next, "duplicate miner name")
        ELSE [next EXCEPT !.minerMap = (fields[1] :> Tail(fields)) @@ @,
                          !.minerIndex = (fields[1] :> G.i) @@ @,
                          !.i = @ + 1]

ScanLine ==
    /\ pc = "scan"
    /\ g.line < Len(g.networkfile)
    /\ g' = scanned(g)
    /\ pc' = IF g'.stderr # "" THEN "exit" ELSE "scan"
    /\ step' = [kind |-> "scan", ev |-> NoEvent, draw |-> NoDraw]
    /\ UNCHANGED started

\* The zero value of a miner.
ZeroMiner == [hashrate |-> 0, mined |-> 0, credit |-> 0, peers |-> << >>, tip |-> 0]

\* The scan has ended: "no miners", or g.miners = make([]miner, i).
ScanEnd ==
    /\ pc = "scan"
    /\ g.line = Len(g.networkfile)
    /\ IF DOMAIN g.minerMap = {}
       THEN g' = Exit(g, "no miners") /\ pc' = "exit"
       ELSE g' = [g EXCEPT !.miners = [mi \in 0..(g.i - 1) |-> ZeroMiner]] /\ pc' = "setup"
    /\ step' = [kind |-> "scanned", ev |-> NoEvent, draw |-> NoDraw]
    /\ UNCHANGED started

\* The loop over the (peer, delay) pairs v of a line: the peers appended, or
\* the message of the exit.
RECURSIVE peersOf(_, _, _)
peersOf(G, v, peers) ==
    IF Len(v) = 0 THEN [err |-> "", peers |-> peers]
    ELSE IF v[1] \notin DOMAIN G.minerIndex THEN [err |-> "no such miner", peers |-> peers]
    ELSE IF ParseFloat(v[2]).err THEN [err |-> "bad delay", peers |-> peers]
    ELSE peersOf(G, SubSeq(v, 3, Len(v)),
                 Append(peers, Peer(G.minerIndex[v[1]], ParseFloat(v[2]).val)))

\* One iteration of "for k, v := range minerMap", for the key k, on a line
\* that has a hashrate field.
setUp(G, k) ==
    LET v == G.minerMap[k]
        hr == Atoi(v[1])
        T == [G EXCEPT !.ranged = @ \union {k}]
        H == [T EXCEPT !.totalhash = @ + hr.val]
        ps == peersOf(G, Tail(v), << >>)
    IN  IF hr.err THEN Exit(T, "bad hashrate")
        ELSE IF hr.val <= 0 THEN Exit(T, "hashrate must be greater than zero")
        ELSE IF Len(Tail(v)) % 2 > 0 THEN Exit(H, "bad peer delay pairs")
        ELSE IF ps.err # "" THEN Exit(H, ps.err)
        ELSE [H EXCEPT !.miners[G.minerIndex[k]] =
                           [ZeroMiner EXCEPT !.hashrate = hr.val, !.peers = ps.peers]]

\* The order in which range visits the keys of a map is not specified: any
\* key not visited yet can come next.
SetUpMiner ==
    /\ pc = "setup"
    /\ \E k \in DOMAIN g.minerMap \ g.ranged :
          IF g.minerMap[k] = << >>
          THEN /\ g' = [g EXCEPT !.ranged = @ \union {k}]   \* v[0]: index out of range
               /\ pc' = "panic"
          ELSE /\ g' = setUp(g, k)
               /\ pc' = IF g'.stderr # "" THEN "exit" ELSE "setup"
    /\ step' = [kind |-> "setup", ev |-> NoEvent, draw |-> NoDraw]
    /\ UNCHANGED started

\* All miners are set up: main goes on to start them.
SetUpEnd ==
    /\ pc = "setup"
    /\ DOMAIN g.minerMap = g.ranged
    /\ g' = g
    /\ pc' = "start"
    /\ step' = [kind |-> "read", ev |-> NoEvent, draw |-> NoDraw]
    /\ UNCHANGED started

NextNetworkFile ==
    \/ ScanLine /\ UNCHANGED pair
    \/ ScanEnd /\ UNCHANGED pair
    \/ SetUpMiner /\ UNCHANGED pair
    \/ SetUpEnd /\ UNCHANGED pair
    \/ StartMiner /\ UNCHANGED pair

SpecNetworkFile == InitNetworkFile /\ [][NextNetworkFile]_vars

(* --------------------------- the solve time ---------------------------- *)
\* startMining's solvetime, in the floating point arithmetic of the program:
\* binary, round to nearest, ties to even, with a significand of MantissaBits
\* bits (53 in float64).  A number is [m, e], standing for m * 2^e, with
\* 2^(MantissaBits-1) <= m < 2^MantissaBits.

MantissaBits == 4

RECURSIVE Pow2(_)
Pow2(n) == IF n = 0 THEN 1 ELSE 2 * Pow2(n - 1)

\* p/q as (p'/q') * 2^e with 2^(MantissaBits-1) <= p'/q' < 2^MantissaBits
RECURSIVE Normal(_, _, _)
Normal(p, q, e) ==
    IF p >= Pow2(MantissaBits) * q THEN Normal(p, 2 * q, e + 1)
    ELSE IF p < Pow2(MantissaBits - 1) * q THEN Normal(2 * p, q, e - 1)
    ELSE [p |-> p, q |-> q, e |-> e]

\* The number nearest to p/q, for integers p, q > 0.
Round(p, q) ==
    LET n == Normal(p, q, 0)
        m0 == n.p \div n.q
        r == n.p % n.q
        m == IF 2 * r > n.q \/ (2 * r = n.q /\ m0 % 2 = 1) THEN m0 + 1 ELSE m0
    IN  IF m = Pow2(MantissaBits)
        THEN [m |-> Pow2(MantissaBits - 1), e |-> n.e + 1]
        ELSE [m |-> m, e |-> n.e]

\* float64(n), for an integer n > 0
float64(n) == Round(n, 1)

\* a * b
fmul(a, b) ==
    LET e == a.e + b.e
    IN  Round(a.m * b.m * (IF e > 0 THEN Pow2(e) ELSE 1), IF e < 0 THEN Pow2(-e) ELSE 1)

\* a / b
fdiv(a, b) ==
    LET e == a.e - b.e
    IN  Round(a.m * (IF e > 0 THEN Pow2(e) ELSE 1), b.m * (IF e < 0 THEN Pow2(-e) ELSE 1))

\* The values of -math.Log(1.0-rand.Float64()) drawn: the numbers of [1/2, 2).
LogDraws ==
    {[m |-> m, e |-> e] : m \in Pow2(MantissaBits - 1)..(Pow2(MantissaBits) - 1),
                          e \in {-MantissaBits, 1 - MantissaBits}}

\* The greatest total hashrate, and the greatest factor the hashrates are
\* scaled by.
MaxHash == 5
MaxScale == 3

\* 1e6
Million == 1000000

\* src/unnamed/part_001: L * float64(g.blockinterval*g.totalhash) / float64(m.hashrate)
lazySolvetime(L, blockinterval, totalhash, hashrate) ==
    fdiv(fmul(L, float64(blockinterval * totalhash)), float64(hashrate))

\* src/minesim.go with -i: L / m.hashrate, then *= g.blockinterval * g.totalhash
intervalSolvetime(L, blockinterval, totalhash, hashrate) ==
    fmul(fdiv(L, float64(hashrate)), fmul(float64(blockinterval), float64(totalhash)))

\* src/minesim.go with -d: L / m.hashrate, then *= 1e6 * g.difficulty
difficultySolvetime(L, difficulty, hashrate) ==
    fmul(fdiv(L, float64(hashrate)), fmul(float64(Million), float64(difficulty)))

\* The solve times of one miner for one draw.
solvetimes(L, blockinterval, difficulty, totalhash, hashrate) ==
    [ lazy |-> lazySolvetime(L, blockinterval, totalhash, hashrate),
      interval |-> intervalSolvetime(L, blockinterval, totalhash, hashrate),
      difficulty |-> difficultySolvetime(L, difficulty, hashrate) ]

NoSolvetimes == [lazy |-> 0, interval |-> 0, difficulty |-> 0]

\* One miner of a network, the draw of its first block, and the factor by
\* which the hashrates of the network file are scaled.
InitSolveTime ==
    /\ g \in { [ L |-> L, blockinterval |-> BlockInterval, difficulty |-> d,
                 totalhash |-> t, hashrate |-> h, scale |-> k,
                 solvetime |-> NoSolvetimes, scaled |-> NoSolvetimes ] :
               L \in LogDraws, d \in 1..2, t \in 1..MaxHash, h \in 1..MaxHash,
               k \in 1..MaxScale }
    /\ g.hashrate <= g.totalhash
    /\ g.scale * g.totalhash * g.blockinterval < Pow2(MantissaBits)
    /\ pc = "start"
    /\ started = 0
    /\ step = [kind |-> "init", ev |-> NoEvent, draw |-> NoDraw]
    /\ tape = << >>
    /\ ghist = << >>
    /\ tied = FALSE
    /\ pops = 0
    /\ fifo = << >>
    /\ noskip = [g |-> g, pc |-> "start", started |-> 0, pos |-> 0, pops |-> 0,
                 hist |-> << >>]

\* startMining computes the solve time, on the network as written and on
\* the network whose hashrates are all multiplied by g.scale.
SolveTimes ==
    /\ pc = "start"
    /\ g' = [g EXCEPT
               !.solvetime = solvetimes(g.L, g.blockinterval, g.difficulty,
                                        g.totalhash, g.hashrate),
               !.scaled = solvetimes(g.L, g.blockinterval, g.difficulty,
                                     g.scale * g.totalhash, g.scale * g.hashrate)]
    /\ pc' = "scheduled"
    /\ started' = 1
    /\ step' = [kind |-> "start", ev |-> NoEvent, draw |-> NoDraw]

NextSolveTime ==
    SolveTimes /\ UNCHANGED pair

SpecSolveTime == InitSolveTime /\ [][NextSolveTime]_vars

(* ------------------------------ claims -------------------------------- *)

RECURSIVE sumTo(_, _, _)
sumTo(G, field, k) ==
    IF k < 0 THEN 0 ELSE G.miners[k][field] + sumTo(G, field, k - 1)

SumCredit(G) == sumTo(G, "credit", Cardinality(Miners(G)) - 1)

SumMined(G) == sumTo(G, "mined", Cardinality(Miners(G)) - 1)

\* a is bid or an ancestor of bid, through parent links of retained blocks.
RECURSIVE onChain(_, _, _)
onChain(G, a, bid) ==
    IF bid = a THEN TRUE
    ELSE IF ~validblock(G, bid) THEN FALSE
    ELSE onChain(G, a, getblock(G, bid).parent)

\* The state is the one a pruning step (cleanBlocks) has just left.
AfterPrune == pc \in {"pop", "done"}

\* C1: in every reachable state every miner's credit is at most the number
\* of blocks it has mined.
C1_CreditAtMostMined ==
    \A mi \in Miners(g) : g.miners[mi].credit <= g.miners[mi].mined

\* A pruning step has given credit while some mined block has none.
C1_Witness ==
    /\ AfterPrune
    /\ \E mi \in Miners(g) : g.miners[mi].credit > 0
    /\ \E mi \in Miners(g) : g.miners[mi].credit < g.miners[mi].mined

\* C2: right after every pruning step the credits sum to the height of the
\* base block g.blocks[0], and the sum of the credits never decreases.
C2_CreditSumIsBaseHeight ==
    /\ [](AfterPrune => SumCredit(g) = g.blocks[1].height)
    /\ [][SumCredit(g') >= SumCredit(g)]_vars

\* A pruning step has moved the base two blocks up or more.
C2_Witness ==
    /\ AfterPrune
    /\ g.baseblockid > GenesisId
    /\ g.blocks[1].height >= 2
    /\ SumCredit(g) = g.blocks[1].height

\* C3: right after every pruning step every miner's tip is a retained block
\* that is the base block or descends from it.
C3_PruneKeepsTipAncestors ==
    AfterPrune =>
        \A mi \in Miners(g) :
            /\ g.miners[mi].tip >= g.baseblockid
            /\ validblock(g, g.miners[mi].tip)
            /\ onChain(g, g.baseblockid, g.miners[mi].tip)

\* A pruning step has discarded blocks while two miners are on different tips
\* above the new base.
C3_Witness ==
    /\ step.kind = "prune"
    /\ g.baseblockid > GenesisId
    /\ \E m1, m2 \in Miners(g) :
        /\ g.miners[m1].tip # g.miners[m2].tip
        /\ g.miners[m1].tip # g.baseblockid
        /\ g.miners[m2].tip # g.baseblockid

\* The event main pops next.
Top == heapTop(g.eventlist)

Events(e) == {e[i] : i \in DOMAIN e}

EvCount(e, x) == Cardinality({i \in DOMAIN e : e[i] = x})

\* How many copies of x a step has pushed, when it popped ev from e1 and left e2.
Scheduled(e2, e1, ev, x) ==
    EvCount(e2, x) - (EvCount(e1, x) - (IF x = ev THEN 1 ELSE 0))

\* The step only popped ev and set the clock to its timestamp.
OnlyPopped(G1, G2, ev) ==
    /\ G2 = [G1 EXCEPT !.eventlist = G2.eventlist, !.currenttime = ev.when]
    /\ Len(G2.eventlist) = Len(G1.eventlist) - 1
    /\ \A x \in Events(G1.eventlist) \union Events(G2.eventlist) :
           Scheduled(G2.eventlist, G1.eventlist, ev, x) = 0

\* C4: a received block that is retained and higher than the receiver's tip
\* is switched to by a walk that stays on retained blocks (ids >= base).
C4_ReorgWalkStaysRetained ==
    (AtPop /\ ~Top.mining /\ ~ignored(g, Top)) =>
        reorgDepth(g, g.miners[Top.to].tip, Top.bid) # Panic

\* C5: a mining event whose block is not the miner's tip any more is dropped:
\* the step pops it and sets the clock, and changes nothing else.
C5_StaleMinedNoEffect ==
    [][(AtPop /\ Top.mining /\ Top.bid # g.miners[Top.to].tip)
          => OnlyPopped(g, g', Top)]_vars

\* A stale mining event has just been dropped while other events wait.
C5_Witness ==
    /\ step.kind = "stale"
    /\ step.ev.bid # g.miners[step.ev.to].tip
    /\ g.currenttime = step.ev.when
    /\ Len(g.eventlist) >= 2

\* C6: a mining event on the miner's tip makes one block (parent the old tip,
\* one higher, mined by p at the clock), moves p's tip to it, counts it for p,
\* schedules one mining event for p on it, and leaves the other miners alone.
C6_MinedBlockEffect ==
    [][(AtPop /\ Top.mining /\ Top.bid = g.miners[Top.to].tip) =>
          LET p == Top.to
              oldtip == g.miners[p].tip
              nid == g.baseblockid + Len(g.blocks)
              e1 == g.eventlist
              e2 == g'.eventlist
              new == {x \in Events(e2) : x.mining /\ Scheduled(e2, e1, Top, x) > 0}
          IN  /\ g'.currenttime = Top.when
              /\ g'.miners[p].mined = g.miners[p].mined + 1
              /\ g'.miners[p].credit = g.miners[p].credit
              /\ g'.miners[p].tip = nid
              /\ g'.baseblockid = g.baseblockid
              /\ g'.blocks = Append(g.blocks, [parent |-> oldtip,
                                               height |-> getheight(g, oldtip) + 1,
                                               miner |-> p,
                                               time |-> Top.when])
              /\ \A q \in Miners(g) \ {p} : g'.miners[q] = g.miners[q]
              /\ \A x \in Events(e1) \union Events(e2) : Scheduled(e2, e1, Top, x) >= 0
              /\ \E x \in new :
                    /\ new = {x}
                    /\ Scheduled(e2, e1, Top, x) = 1
                    /\ x.to = p /\ x.bid = nid /\ x.when >= g'.currenttime]_vars

\* A miner has just mined on a block that is not the genesis block while
\* another miner is on another tip.
C6_Witness ==
    /\ step.kind = "mined"
    /\ getheight(g, g.miners[step.ev.to].tip) >= 2
    /\ \E q \in Miners(g) : g.miners[q].tip # g.miners[step.ev.to].tip

\* C7: a received block that is below the base or not higher than the
\* receiver's tip is dropped: the step pops the event and sets the clock, and
\* changes nothing else (no switch, no relay, no mining event).
C7_ReceivedNotBetterNoEffect ==
    [][(/\ AtPop
        /\ ~Top.mining
        /\ (IF validblock(g, Top.bid)
            THEN getheight(g, Top.bid) <= getheight(g, g.miners[Top.to].tip)
            ELSE Top.bid < g.baseblockid))
          => OnlyPopped(g, g', Top)]_vars

\* A received block of the very height of the receiver's tip, on another
\* branch, has just been dropped.
C7_Witness ==
    /\ step.kind = "ignored"
    /\ validblock(g, step.ev.bid)
    /\ step.ev.bid # g.miners[step.ev.to].tip
    /\ getheight(g, step.ev.bid) = getheight(g, g.miners[step.ev.to].tip)

\* A received block that pruning has discarded has just been dropped.
C7_WitnessPruned ==
    /\ step.kind = "ignored"
    /\ step.ev.bid < g.baseblockid

\* C8: a received block that is retained and higher than the receiver's tip
\* becomes the receiver's tip, with one new mining event for the receiver on
\* it, and no block, mined count or credit changes.
C8_ReceivedBetterSwitches ==
    [][(/\ AtPop
        /\ ~Top.mining
        /\ validblock(g, Top.bid)
        /\ getheight(g, Top.bid) > getheight(g, g.miners[Top.to].tip)) =>
          LET p == Top.to
              e1 == g.eventlist
              e2 == g'.eventlist
              new == {x \in Events(e2) : x.mining /\ Scheduled(e2, e1, Top, x) > 0}
          IN  /\ g'.miners[p].tip = Top.bid
              /\ g'.blocks = g.blocks
              /\ \A q \in Miners(g) :
                    /\ g'.miners[q].mined = g.miners[q].mined
                    /\ g'.miners[q].credit = g.miners[q].credit
              /\ \E x \in new :
                    /\ new = {x}
                    /\ Scheduled(e2, e1, Top, x) = 1
                    /\ x.to = p /\ x.bid = Top.bid]_vars

\* C9: relaying the block b from the miner p at the clock t pushes, for every
\* event x, as many copies of x as p has peer entries (target, delay) with
\* x = ReceivedBlock(target, b) at t + delay whose target's tip was lower than
\* b; so none for a miner that is no peer of p.
C9_RelaySchedules ==
    [][step'.kind \in {"mined", "switch"} =>
          LET p == step'.ev.to
              b == g'.miners[p].tip
              t == g'.currenttime
              e1 == g.eventlist
              e2 == g'.eventlist
              peers == g.miners[p].peers
              edges(x) == {k \in DOMAIN peers :
                              /\ peers[k].miner = x.to
                              /\ x.bid = b
                              /\ x.when = t + peers[k].delay
                              /\ getheight(g, g.miners[peers[k].miner].tip) < getheight(g', b)}
              sent == {[to |-> peers[k].miner, mining |-> FALSE,
                        when |-> t + peers[k].delay, bid |-> b] : k \in DOMAIN peers}
          IN  \A x \in Events(e1) \union Events(e2) \union sent :
                  ~x.mining => Scheduled(e2, e1, step'.ev, x) = Cardinality(edges(x))]_vars

\* A relay has just pushed an event for one peer and none for another peer,
\* whose tip was not lower.
C9_Witness ==
    /\ step.kind \in {"mined", "switch"}
    /\ \E k1, k2 \in DOMAIN g.miners[step.ev.to].peers :
          LET p == step.ev.to
              b == g.miners[p].tip
              ev(k) == [to |-> g.miners[p].peers[k].miner, mining |-> FALSE,
                        when |-> g.currenttime + g.miners[p].peers[k].delay, bid |-> b]
          IN  /\ EvCount(g.eventlist, ev(k1)) > 0
              /\ EvCount(g.eventlist, ev(k2)) = 0

\* C10: on the same network, configuration and draws, the engine whose relay
\* skips nothing ends as main does: the same blocks created and tips switched
\* in the same order, the same mined and credit counts, base block and
\* greatest reorg depth.
C10_RelaySkipSameOutcome ==
    /\ noskip.pc \notin {"diverged", "panic"}
    /\ noskip.pc = "done" =>
          /\ noskip.hist = ghist
          /\ \A mi \in Miners(g) :
                /\ noskip.g.miners[mi].mined = g.miners[mi].mined
                /\ noskip.g.miners[mi].credit = g.miners[mi].credit
                /\ noskip.g.miners[mi].tip = g.miners[mi].tip
          /\ noskip.g.baseblockid = g.baseblockid
          /\ noskip.g.blocks[1] = g.blocks[1]
          /\ noskip.g.maxreorg = g.maxreorg

\* The outcomes are the same on the runs where main never had to choose
\* between events of one timestamp.
SameOutcomeWithoutTies == tied \/ C10_RelaySkipSameOutcome

\* Both engines have ended such a run, and the second one has popped more
\* events than main: the ones main's relay skipped.
SameOutcomeWitness ==
    /\ ~tied
    /\ pc = "done" /\ noskip.pc = "done"
    /\ Len(ghist) >= 5
    /\ noskip.pops > pops

\* The ids of the retained blocks.
Retained(G) == {G.baseblockid + i - 1 : i \in DOMAIN G.blocks}

\* The blocks of c's chain that are not on t's chain.
Abandoned(G, c, t) == {b \in Retained(G) : onChain(G, b, c) /\ ~onChain(G, b, t)}

\* The retained blocks that c and t both descend from (or are).
CommonAncestors(G, c, t) == {b \in Retained(G) : onChain(G, b, c) /\ onChain(G, b, t)}

\* The height of the most recent of them.
ForkHeight(G, c, t) ==
    CHOOSE h \in {getheight(G, b) : b \in CommonAncestors(G, c, t)} :
        \A b \in CommonAncestors(G, c, t) : getheight(G, b) <= h

\* C11: a switch from the tip c to the received block t counts as reorg depth
\* the blocks of c's chain that t's chain leaves, height(c) minus the height of
\* their most recent common ancestor; none exactly when t descends from c;
\* g.maxreorg starts at 0, becomes the greater of itself and that depth at a
\* switch, and changes at no other step.
C11_ReorgDepthIsForkDistance ==
    /\ g.maxreorg = 0
    /\ [][IF step'.kind = "switch"
          THEN LET c == g.miners[step'.ev.to].tip
                   t == step'.ev.bid
                   depth == Cardinality(Abandoned(g, c, t))
               IN  /\ CommonAncestors(g, c, t) # {}
                   /\ depth = getheight(g, c) - ForkHeight(g, c, t)
                   /\ (depth = 0) <=> onChain(g, c, t)
                   /\ g'.maxreorg = IF g.maxreorg < depth THEN depth ELSE g.maxreorg
                   /\ g'.maxreorg >= depth
          ELSE g'.maxreorg = g.maxreorg]_vars

\* A switch has left a branch two blocks deep or more.
C11_Witness ==
    /\ step.kind = "switch"
    /\ g.maxreorg >= 2

\* C13: in every state of the main loop, cleanBlocks run on the state that
\* cleanBlocks leaves changes nothing: the same base, blocks, credits and
\* g.mined.
C13_CleanBlocksIdempotent ==
    pc # "start" =>
        (~cleanPanics(g) =>
            /\ ~cleanPanics(cleanBlocks(g))
            /\ cleanBlocks(cleanBlocks(g)) = cleanBlocks(g))

\* Main is about to run cleanBlocks, which will move the base and give credit.
C13_Witness ==
    /\ pc = "loop" /\ Running(g) /\ PruneDue(g) /\ ~cleanPanics(g)
    /\ cleanBlocks(g).baseblockid > g.baseblockid + 1
    /\ cleanBlocks(g).mined > g.mined
    /\ SumCredit(cleanBlocks(g)) > SumCredit(g)

\* A step of main that has run cleanBlocks to its end.
Pruned == step'.kind \in {"prune", "finish"} /\ pc' # "panic"

\* The blocks of miner mi on the chain of the block a, above the base.
ChainBlocksOf(G, a, mi) ==
    {b \in Retained(G) : /\ b # G.baseblockid
                          /\ onChain(G, b, a)
                          /\ getblock(G, b).miner = mi}

\* C14 as stated: a pruning step that moves the base to A credits the miners
\* of the blocks strictly between the old base and A, and not A's.
C14_CreditStrictlyBetween ==
    [][Pruned =>
          \A mi \in Miners(g) :
              g'.miners[mi].credit - g.miners[mi].credit
                  = Cardinality(ChainBlocksOf(g, g'.baseblockid, mi) \ {g'.baseblockid})]_vars

\* C14 amended: a pruning step that moves the base to A credits the miner of
\* each block of A's chain above the old base, A itself included, once, and
\* changes no other credit.
C14_CreditUpToNewBase ==
    [][Pruned =>
          \A mi \in Miners(g) :
              g'.miners[mi].credit - g.miners[mi].credit
                  = Cardinality(ChainBlocksOf(g, g'.baseblockid, mi))]_vars

\* A pruning step has just credited blocks of two miners.
C14_Witness ==
    /\ step.kind = "prune"
    /\ g.blocks[1].height >= 2
    /\ \E m1, m2 \in Miners(g) :
          m1 # m2 /\ g.miners[m1].credit > 0 /\ g.miners[m2].credit > 0

\* C18: the base a pruning step selects is an ancestor-or-self of every tip,
\* and no block that every tip descends from (or is) is higher.
C18_NewBaseIsLastCommonAncestor ==
    [][Pruned =>
          /\ \A mi \in Miners(g) : onChain(g, g'.baseblockid, g.miners[mi].tip)
          /\ \A b \in Retained(g) :
                 (\A mi \in Miners(g) : onChain(g, b, g.miners[mi].tip))
                     => getheight(g, b) <= getheight(g, g'.baseblockid)]_vars

\* A pruning step has just moved the base while the tips were at different
\* heights.
C18_Witness ==
    /\ step.kind = "prune"
    /\ g.baseblockid > GenesisId
    /\ \E m1, m2 \in Miners(g) :
          getheight(g, g.miners[m1].tip) < getheight(g, g.miners[m2].tip)

C20_EventsInTimeOrder ==
    [][/\ step'.ev # NoEvent =>
             \A x \in Events(g.eventlist) : step'.ev.when <= x.when
       /\ \A x \in Events(g'.eventlist) :
             Scheduled(g'.eventlist, g.eventlist, step'.ev, x) > 0
                 => x.when >= g'.currenttime
       /\ g'.currenttime >= g.currenttime]_vars

\* The first block (height 1, on the genesis block) has been mined by a at
\* the time ta and nothing has been pruned.
FirstMined(G, a) ==
    /\ OnDuelNet(G)
    /\ G.baseblockid = GenesisId
    /\ Len(G.blocks) >= 2
    /\ G.blocks[2].miner = a /\ G.blocks[2].parent = GenesisId

\* The scenario: the other miner b then mined its own block on the genesis
\* block before a's block could reach it.
Duel(G, a, b) ==
    /\ FirstMined(G, a)
    /\ a # b
    /\ Len(G.blocks) >= 3
    /\ G.blocks[3].miner = b /\ G.blocks[3].parent = GenesisId
    /\ G.blocks[2].time < G.blocks[3].time
    /\ G.blocks[3].time < G.blocks[2].time + DuelDelay

\* C12: in the scenario (a mines a block of height 1, b mines its own before
\* a's arrives), (1) b's block is a second block of height 1 and the two
\* miners are on different tips with no reorg; (2) b drops a's block when it
\* arrives, with no reorg; (3) when one of them has mined a block of height 2
\* and the other, still on its own block, receives it, the receiver switches
\* and the greatest reorg depth goes from 0 to 1; (4) the pruning step that
\* moves the base to height 2 or above gives the credit of heights 1 and 2 to
\* the miner of the winning branch, and none for the losing block.
C12_DuelScenario ==
    [][\A a, b \in Miners(g) :
          /\ (/\ FirstMined(g, a) /\ a # b /\ Len(g.blocks) = 2
              /\ AtPop /\ Top.mining /\ Top.to = b /\ Top.bid = g.miners[b].tip
              /\ g.miners[b].tip = GenesisId
              /\ g.blocks[2].time < Top.when
              /\ Top.when < g.blocks[2].time + DuelDelay)
                 => /\ Duel(g', a, b)
                    /\ Len(g'.blocks) = 3
                    /\ g'.blocks[2].height = 1 /\ g'.blocks[3].height = 1
                    /\ g'.miners[a].tip = GenesisId + 1
                    /\ g'.miners[b].tip = GenesisId + 2
                    /\ g'.maxreorg = 0
          /\ (/\ Duel(g, a, b) /\ Len(g.blocks) = 3
              /\ AtPop /\ ~Top.mining /\ Top.to = b /\ Top.bid = GenesisId + 1)
                 => /\ Top.when = g.blocks[2].time + DuelDelay
                    /\ g'.blocks = g.blocks
                    /\ g'.miners[a].tip = GenesisId + 1
                    /\ g'.miners[b].tip = GenesisId + 2
                    /\ g'.maxreorg = 0
          /\ (/\ Duel(g, a, b) /\ Len(g.blocks) = 4
              /\ g.blocks[4].height = 2
              /\ g.blocks[4].miner = a
              /\ g.miners[b].tip = GenesisId + 2
              /\ AtPop /\ ~Top.mining /\ Top.to = b /\ Top.bid = GenesisId + 3)
                 => /\ g.maxreorg = 0
                    /\ g'.maxreorg = 1
                    /\ g'.miners[b].tip = GenesisId + 3
                    /\ g'.miners[a].tip = GenesisId + 3
          /\ (/\ Duel(g, a, b) /\ Len(g.blocks) = 4
              /\ g.blocks[4].height = 2
              /\ g.blocks[4].miner = b
              /\ g.miners[a].tip = GenesisId + 1
              /\ AtPop /\ ~Top.mining /\ Top.to = a /\ Top.bid = GenesisId + 3)
                 => /\ g.maxreorg = 0
                    /\ g'.maxreorg = 1
                    /\ g'.miners[a].tip = GenesisId + 3
                    /\ g'.miners[b].tip = GenesisId + 3
          /\ (Duel(g, a, b) /\ Pruned /\ g'.blocks[1].height >= 2)
                 => \E w \in {a, b} :
                       LET l == CHOOSE x \in {a, b} : x # w
                           low == {x \in Retained(g) :
                                      /\ onChain(g, x, g'.baseblockid)
                                      /\ getheight(g, x) \in {1, 2}}
                       IN  /\ Cardinality(low) = 2
                           /\ \A x \in low : getblock(g, x).miner = w
                           /\ g'.miners[w].credit
                                 = 2 + Cardinality({x \in ChainBlocksOf(g, g'.baseblockid, w) :
                                                       getheight(g, x) > 2})
                           /\ g'.miners[l].credit
                                 = Cardinality({x \in ChainBlocksOf(g, g'.baseblockid, l) :
                                                   getheight(g, x) > 2})]_vars

\* In the scenario the miner of the losing block has just switched to the
\* winner's block of height 2: one reorg of depth 1.
C12_Witness ==
    /\ step.kind = "switch"
    /\ \E a, b \in Miners(g) : Duel(g, a, b)
    /\ Len(g.blocks) = 4
    /\ g.maxreorg = 1
    /\ \A mi \in Miners(g) : g.miners[mi].tip = GenesisId + 3

\* On the scenario's network a pruning step has just moved the base to the
\* block of height 2, after one reorg of depth 1, and given its miner the
\* credit of both heights.
DuelCreditWitness ==
    /\ step.kind = "prune"
    /\ OnDuelNet(g)
    /\ g.baseblockid = GenesisId + 3
    /\ g.blocks[1].height = 2
    /\ g.maxreorg = 1
    /\ \E w \in Miners(g) : g.miners[w].credit = 2 /\ g.miners[w].mined = 2
    /\ SumMined(g) = 3

\* The log of pushes holds the very events of the queue.
FifoIsQueue ==
    /\ Len(fifo) = Len(g.eventlist)
    /\ \A x \in Events(fifo) \union Events(g.eventlist) :
           EvCount(fifo, x) = EvCount(g.eventlist, x)

\* C21: of the queued events with the least timestamp, main pops the one that
\* was pushed first.
C21_TiesPoppedInInsertionOrder ==
    [][step'.ev # NoEvent =>
          LET early == {i \in DOMAIN fifo : fifo[i].when = step'.ev.when}
              first == CHOOSE i \in early : \A j \in early : i <= j
          IN  early # {} /\ fifo[first] = step'.ev]_vars

\* The block the miner mi mines on, in either engine.
TipOf(G, mi) ==
    IF "tip" \in DOMAIN G.miners[mi] THEN G.miners[mi].tip ELSE G.miners[mi].current

\* The blocks a step discards from the arena.
Discarded == {b \in Retained(g) : b < g'.baseblockid}

\* C15: credit changes only in a step that discards blocks; every block the
\* step discards is an ancestor of the new base, and each miner's credit grows
\* by the number of its blocks among them.
C15_CreditOnlyForDiscarded ==
    [][/\ \A b \in Discarded : onChain(g, b, g'.baseblockid)
       /\ \A mi \in Miners(g) :
             g'.miners[mi].credit - g.miners[mi].credit
                 = Cardinality({b \in Discarded : getblock(g, b).miner = mi})]_vars

\* C16: no step lowers the credit of a miner.
C16_CreditNeverDecreases ==
    [][\A mi \in Miners(g) : g'.miners[mi].credit >= g.miners[mi].credit]_vars

\* C17: the credited blocks, as many as the credits given, are all on the
\* chain of every miner's tip: once the miners have started, some block that
\* every tip descends from (or is) is at least as high as the credits are many.
C17_CreditedOnEveryChain ==
    pc # "start" =>
        \E b \in Retained(g) :
            /\ \A mi \in Miners(g) : onChain(g, b, TipOf(g, mi))
            /\ SumCredit(g) <= getheight(g, b)

\* C22: every id that resolves before and after a step resolves to the same
\* block (pruning steps included); a step creates at most one block; the id a
\* miner is given for the block it has mined is greater than every id in use,
\* and resolves to that block.
C22_BlockIdsUniqueAndStable ==
    [][/\ \A b \in Retained(g) \cap Retained(g') : getblock(g', b) = getblock(g, b)
       /\ \A b \in Retained(g') \ Retained(g) : \A a \in Retained(g) : a < b
       /\ Cardinality(Retained(g') \ Retained(g)) <= 1
       /\ step'.kind = "mined" =>
             LET p == step'.ev.to
                 nid == g'.miners[p].tip
             IN  /\ \A a \in Retained(g) : a < nid
                 /\ Retained(g') \ Retained(g) = {nid}
                 /\ getblock(g', nid) = [parent |-> g.miners[p].tip,
                                         height |-> getheight(g, g.miners[p].tip) + 1,
                                         miner |-> p,
                                         time |-> g'.currenttime]]_vars

\* A block has just been mined after pruning has discarded blocks.
C22_Witness ==
    /\ step.kind = "mined"
    /\ g.baseblockid > GenesisId + 1
    /\ Len(g.blocks) >= 3

\* A pruning step has just discarded blocks and kept more than the base.
C22_WitnessPrune ==
    /\ step.kind = "prune"
    /\ g.baseblockid > GenesisId
    /\ Len(g.blocks) >= 2


\* The queued mining events of the miner mi on the block bid.
MiningEvents(G, mi, bid) ==
    {i \in DOMAIN G.eventlist :
        G.eventlist[i].mining /\ G.eventlist[i].to = mi /\ G.eventlist[i].bid = bid}

\* Main is at the top of an iteration of its loop, or about to pop.
InLoop == pc \in {"loop", "pop"}

\* C23: at the top of every iteration every miner has exactly one queued
\* mining event on its tip, so the queue is not empty; and a step takes no
\* event out of the queue but the one it pops.
C23_OneLiveMiningEvent ==
    /\ [](InLoop =>
             /\ \A mi \in Miners(g) : Cardinality(MiningEvents(g, mi, g.miners[mi].tip)) = 1
             /\ g.eventlist # << >>)
    /\ [][/\ \A x \in Events(g.eventlist) \union Events(g'.eventlist) :
                Scheduled(g'.eventlist, g.eventlist, step'.ev, x) >= 0
          /\ step'.ev # NoEvent => EvCount(g.eventlist, step'.ev) >= 1]_vars

\* At the top of an iteration a miner has a stale mining event queued beside
\* the one on its tip, after a switch.
C23_Witness ==
    /\ pc = "loop"
    /\ step.kind = "switch"
    /\ \E mi \in Miners(g) :
          \E i \in DOMAIN g.eventlist :
              /\ g.eventlist[i].mining
              /\ g.eventlist[i].to = mi
              /\ g.eventlist[i].bid # g.miners[mi].tip


\* C24: when main has ended, the mined blocks it reports are as many as the
\* miners' mined counts together.
C24_ReportedMinedIsSumOfMined ==
    pc = "done" => minedblocks(g) = SumMined(g)

\* C25: when main has ended, the stale blocks it reports are the mined counts
\* together minus the credits together, and not fewer than none.
C25_ReportedStaleIsMinedMinusCredited ==
    pc = "done" =>
        /\ staleblocks(g) = SumMined(g) - SumCredit(g)
        /\ staleblocks(g) >= 0

\* C26: when main has ended, the simulation time it reports is the clock, the
\* timestamp of the last event it popped.
C26_ReportedTimeIsClock ==
    pc = "done" => totalsimtime(g) = g.currenttime

\* What the report counts: the blocks below the last base, the genesis block
\* left out; the blocks still in the arena, the base among them, are not in
\* g.mined.
ReportedMinedIsBelowBase ==
    pc = "done" =>
        /\ minedblocks(g) = SumMined(g) - (IF g.baseblockid = GenesisId
                                           THEN Len(g.blocks) - 1 ELSE Len(g.blocks))
        /\ minedblocks(g) < SumMined(g)
        /\ staleblocks(g) = SumMined(g) - SumCredit(g)
                               - (IF g.baseblockid = GenesisId
                                  THEN Len(g.blocks) - 1 ELSE Len(g.blocks))
        /\ staleblocks(g) >= -1


\* No miner lists mi as a peer.
NoInbound(G, mi) ==
    \A q \in Miners(G) : \A k \in DOMAIN G.miners[q].peers : G.miners[q].peers[k].miner # mi

\* C28: a miner that no miner lists as a peer mines on the genesis block or on
\* a block of its own, every retained block of its tip's chain above the
\* genesis block is its own, no received block is ever queued for it, and it
\* never switches.
C28_NoInboundMinesOwnChain ==
    /\ [](pc # "start" =>
             \A mi \in Miners(g) :
                 NoInbound(g, mi) =>
                     /\ \A b \in Retained(g) :
                            (onChain(g, b, g.miners[mi].tip) /\ b # GenesisId)
                                => getblock(g, b).miner = mi
                     /\ validblock(g, g.miners[mi].tip)
                     /\ \A x \in Events(g.eventlist) : x.to = mi => x.mining)
    /\ [][step'.kind = "switch" => ~NoInbound(g, step'.ev.to)]_vars

\* A miner that no miner lists has mined two blocks or more on its own chain
\* while another miner is on a higher block of another chain.
C28_Witness ==
    \E mi, q \in Miners(g) :
        /\ mi # q
        /\ NoInbound(g, mi)
        /\ pc = "loop"
        /\ getheight(g, g.miners[mi].tip) >= 2
        /\ getheight(g, g.miners[q].tip) > getheight(g, g.miners[mi].tip)
        /\ ~onChain(g, g.miners[mi].tip, g.miners[q].tip)


\* The height of the highest block of the arena.
MaxBlockHeight(G) ==
    CHOOSE h \in {G.blocks[i].height : i \in DOMAIN G.blocks} :
        \A i \in DOMAIN G.blocks : G.blocks[i].height <= h

\* The next event is later than the horizon of the model.
OverHorizon ==
    /\ InLoop
    /\ g.eventlist # << >>
    /\ heapTop(g.eventlist).when > MaxTime

\* No block is higher than the stopping height, g.maxHeight is the height of
\* the highest block, main pops no event once a block of the stopping height
\* exists, and ends with such a block.
StopsAtStopHeight ==
    /\ [](/\ MaxBlockHeight(g) <= g.stopheight
          /\ g.maxHeight = MaxBlockHeight(g)
          /\ pc = "done" => MaxBlockHeight(g) = g.stopheight)
    /\ [][g.maxHeight >= g.stopheight => step'.kind = "finish"]_vars

\* C29: with the stopping height H >= 1 the main loop ends, and it ends with
\* the first block of height H: no block is ever higher than H, and the
\* highest block has height H when the loop has ended.
C29_LoopEndsAtStopHeight ==
    /\ StopsAtStopHeight
    /\ <>(pc = "done" \/ OverHorizon)

\* The same with the run-time panic as a way for main to stop.
LoopEndsOrPanics ==
    /\ StopsAtStopHeight
    /\ <>(pc \in {"done", "panic"} \/ OverHorizon)

\* What is left for main to do: the heights the tips can still gain, each
\* worth the events a mined or received block can push, and the queued events.
Remaining(G) ==
    LET RECURSIVE gain(_)
        gain(k) == IF k < 0 THEN 0
                   ELSE (G.stopheight - getheight(G, G.miners[k].tip)) + gain(k - 1)
        most == CHOOSE n \in {Len(G.miners[mi].peers) : mi \in Miners(G)} :
                    \A mi \in Miners(G) : Len(G.miners[mi].peers) <= n
    IN  gain(Cardinality(Miners(G)) - 1) * (most + 2) + Len(G.eventlist)

\* Every popped event leaves less to do, whatever the draws.
EveryPopLeavesLess ==
    [][(step'.ev # NoEvent /\ pc' # "panic") =>
          /\ Remaining(g') < Remaining(g)
          /\ Remaining(g') >= 0]_vars



\* The lines of a file that describe a participant: not blank, not a comment.
Entries(file) ==
    {n \in 1..Len(file) : Len(file[n]) > 0 /\ file[n][1] # "#"}

DuplicateName(file) ==
    \E n1, n2 \in Entries(file) : n1 # n2 /\ file[n1][1] = file[n2][1]

BadHashrate(file) ==
    \E n \in Entries(file) :
        \/ Len(file[n]) < 2
        \/ file[n][2] \notin DOMAIN Numerals
        \/ file[n][2] \in DOMAIN Numerals /\ Numerals[file[n][2]] <= 0

UnknownPeer(file) ==
    \E n \in Entries(file) :
        \E j \in 3..Len(file[n]) :
            /\ j % 2 = 1
            /\ \A n2 \in Entries(file) : file[n2][1] # file[n][j]

UnpairedToken(file) ==
    \E n \in Entries(file) : Len(file[n]) >= 2 /\ Len(file[n]) % 2 = 1

InvalidTopology(file) ==
    \/ DuplicateName(file)
    \/ BadHashrate(file)
    \/ UnknownPeer(file)
    \/ UnpairedToken(file)

\* C30: on a network file with a duplicate name, an unparsable or non-positive
\* hashrate, an unknown peer name or an unpaired peer/delay token, the program
\* never leaves the reader but by aborting: no participant is started, no
\* block is mined on, and no event is ever in the queue.
C30_InvalidTopologyAbortsBeforeStart ==
    InvalidTopology(g.networkfile) =>
        /\ pc \in {"scan", "setup", "exit", "panic"}
        /\ started = 0
        /\ g.eventlist = << >>
        /\ \A mi \in DOMAIN g.miners : g.miners[mi].tip = 0
        /\ ~(pc = "setup" /\ g.ranged = DOMAIN g.minerMap)

\* An invalid file whose error is found after another participant has been
\* set up: the program has aborted with nothing started.
C30_Witness ==
    /\ InvalidTopology(g.networkfile)
    /\ pc = "exit"
    /\ g.totalhash > 0
    /\ \E mi \in DOMAIN g.miners : g.miners[mi].hashrate > 0

\* Each of the four kinds of error is met, and aborts.
C30_WitnessDuplicate ==
    pc = "exit" /\ g.stderr = "duplicate miner name" /\ DuplicateName(g.networkfile)

C30_WitnessHashrate ==
    /\ pc = "exit" /\ BadHashrate(g.networkfile)
    /\ g.stderr \in {"bad hashrate", "hashrate must be greater than zero"}

C30_WitnessNoHashrate ==
    pc = "panic" /\ BadHashrate(g.networkfile)

C30_WitnessUnknownPeer ==
    pc = "exit" /\ g.stderr = "no such miner" /\ UnknownPeer(g.networkfile)

C30_WitnessUnpaired ==
    pc = "exit" /\ g.stderr = "bad peer delay pairs" /\ UnpairedToken(g.networkfile)

\* A file with none of these errors and parsable delays is read to the end,
\* and its participants are started.
ValidTopologyStarts ==
    pc = "loop" /\ ~InvalidTopology(g.networkfile) /\ Len(g.eventlist) = Cardinality(DOMAIN g.miners)

\* The reader aborts only on the errors above, on an unparsable delay, or on
\* a file with no participant.
AbortsOnlyOnErrors ==
    pc \in {"exit", "panic"} =>
        \/ InvalidTopology(g.networkfile)
        \/ g.stderr \in {"bad delay", "no miners"}


\* C27: multiplying every hashrate by the same positive constant leaves every
\* scheduled solve time as it was, for the same draw.
C27_ScalingLeavesSolveTimes ==
    pc = "scheduled" => g.scaled = g.solvetime

\* Scaling by a power of two leaves the solve times computed from the block
\* interval as they were.
ScalingByTwoLeavesIntervalSolveTimes ==
    (pc = "scheduled" /\ g.scale = 2) =>
        /\ g.scaled.lazy = g.solvetime.lazy
        /\ g.scaled.interval = g.solvetime.interval

\* With the block interval, scaling changes a solve time in its last place at
\* most: the two values differ by one part in 2^(MantissaBits-1) or less.
Near(a, b) ==
    LET lo == IF a.e < b.e THEN a.e ELSE b.e
        x == a.m * Pow2(a.e - lo)
        y == b.m * Pow2(b.e - lo)
    IN  Pow2(MantissaBits - 1) * (IF x > y THEN x - y ELSE y - x)
            <= (IF x > y THEN x ELSE y)

ScalingNearlyLeavesIntervalSolveTimes ==
    pc = "scheduled" =>
        /\ Near(g.scaled.lazy, g.solvetime.lazy)
        /\ Near(g.scaled.interval, g.solvetime.interval)

\* With -d, scaling by k divides the solve time by about k.
C27_DifficultySolveTimeShrinks ==
    /\ pc = "scheduled" /\ g.scale = 2
    /\ g.scaled.difficulty = [g.solvetime.difficulty EXCEPT !.e = @ - 1]

C27_LastPlaceDiffers ==
    /\ pc = "scheduled"
    /\ g.scaled.lazy # g.solvetime.lazy
    /\ g.scaled.difficulty # g.solvetime.difficulty


\* The blocks the miner mi has mined on so far: the genesis block, and every
\* block it made or switched to.
Held(mi) ==
    {GenesisId} \union {ghist[k][3] : k \in {j \in 1..Len(ghist) : ghist[j][2] = mi}}

\* C32: the height of a miner's tip never decreases, and increases at every
\* change of tip; the new tip is no block the miner has mined on before (the
\* blocks it has relayed are among these).
C32_TipHeightStrictlyIncreases ==
    [][\A mi \in Miners(g) :
          g.miners[mi].tip # 0 =>
              /\ validblock(g', g'.miners[mi].tip)
              /\ getheight(g', g'.miners[mi].tip) >= getheight(g, g.miners[mi].tip)
              /\ g'.miners[mi].tip # g.miners[mi].tip =>
                    /\ getheight(g', g'.miners[mi].tip) > getheight(g, g.miners[mi].tip)
                    /\ g'.miners[mi].tip \notin Held(mi)
              /\ g'.miners[mi].tip = g.miners[mi].tip =>
                    getheight(g', g'.miners[mi].tip) = getheight(g, g.miners[mi].tip)]_vars

\* A miner has switched to a received block after it had mined a block of
\* its own, and a pruning step has passed.
C32_Witness ==
    /\ step.kind = "switch"
    /\ g.baseblockid > GenesisId
    /\ \E k \in 1..Len(ghist) : ghist[k][1] = "mined" /\ ghist[k][2] = step.ev.to
    /\ Cardinality(Held(step.ev.to)) >= 3


\* The blocks created so far, by id, from the recorded history: the entry of
\* the block, its miner, and its parent (the block its miner was mining on,
\* that is the miner's previous entry, or the genesis block).
MinedEntries == {k \in 1..Len(ghist) : ghist[k][1] = "mined"}

EntryOf(id) == CHOOSE k \in MinedEntries : ghist[k][3] = id

MinerOf(id) == ghist[EntryOf(id)][2]

ParentOf(id) ==
    LET k == EntryOf(id)
        before == {j \in 1..(k - 1) : ghist[j][2] = ghist[k][2]}
    IN  IF before = {} THEN GenesisId
        ELSE ghist[CHOOSE j \in before : \A i \in before : i <= j][3]

\* The blocks from id down to the genesis block (excluded).
RECURSIVE AncestorsOf(_)
AncestorsOf(id) ==
    IF id = GenesisId THEN {} ELSE {id} \union AncestorsOf(ParentOf(id))

\* The history agrees with g.blocks on the blocks that are retained.
HistoryMatchesArena ==
    \A i \in 2..Len(g.blocks) :
        LET id == g.baseblockid + i - 1
        IN  g.blocks[i].height > 0 =>
                /\ id \in {ghist[k][3] : k \in MinedEntries}
                /\ MinerOf(id) = g.blocks[i].miner
                /\ ParentOf(id) = g.blocks[i].parent

\* C33: a miner's credit is the number of blocks it mined among the ancestors
\* of g.blocks[0], g.blocks[0] included and the genesis block excluded; no
\* other block counts.
C33_CreditIsMinedOnBaseChain ==
    \A mi \in Miners(g) :
        g.miners[mi].credit =
            Cardinality({id \in AncestorsOf(g.baseblockid) : MinerOf(id) = mi})

\* Blocks have been discarded; two miners have credit, and one of them has
\* mined a discarded block that is no ancestor of g.blocks[0].
C33_Witness ==
    /\ g.baseblockid > GenesisId
    /\ \E m1, m2 \in Miners(g) :
          /\ m1 # m2
          /\ g.miners[m1].credit > 0
          /\ g.miners[m2].credit > 0
          /\ \E k \in MinedEntries :
                /\ ghist[k][2] = m1
                /\ ghist[k][3] < g.baseblockid
                /\ ghist[k][3] \notin AncestorsOf(g.baseblockid)


\* The step taken is a pruning step: cleanBlocks has run.
PruneStep == step'.kind \in {"prune", "finish"} /\ pc' # "panic"

\* C34: cleanBlocks changes g.baseblockid, g.blocks, the miners' credit and
\* g.mined only: tips, mined counts, the event list, the clock, g.maxHeight
\* and g.maxreorg stay, and every block from the new base on keeps its
\* parent, height and miner.
C34_PruneChangesOnlyBaseAndCredit ==
    [][PruneStep =>
          /\ \A mi \in Miners(g) :
                /\ g'.miners[mi].tip = g.miners[mi].tip
                /\ g'.miners[mi].mined = g.miners[mi].mined
                /\ g'.miners[mi].hashrate = g.miners[mi].hashrate
                /\ g'.miners[mi].peers = g.miners[mi].peers
          /\ Miners(g') = Miners(g)
          /\ g'.eventlist = g.eventlist
          /\ g'.currenttime = g.currenttime
          /\ g'.maxHeight = g.maxHeight
          /\ g'.maxreorg = g.maxreorg
          /\ g'.totalhash = g.totalhash
          /\ g'.blockinterval = g.blockinterval
          /\ g'.stopheight = g.stopheight
          /\ started' = started
          /\ g'.baseblockid >= g.baseblockid
          /\ g'.baseblockid + Len(g'.blocks) = g.baseblockid + Len(g.blocks)
          /\ \A id \in g'.baseblockid..(g.baseblockid + Len(g.blocks) - 1) :
                /\ validblock(g, id) /\ validblock(g', id)
                /\ getblock(g', id).parent = getblock(g, id).parent
                /\ getblock(g', id).height = getblock(g, id).height
                /\ getblock(g', id).miner = getblock(g, id).miner]_vars

\* A pruning step has discarded blocks and given credit while relayed blocks
\* were on their way and a reorg had been counted.
C34_Witness ==
    /\ step.kind = "prune"
    /\ pc = "pop"
    /\ g.baseblockid > GenesisId + 1
    /\ Len(g.blocks) > 1
    /\ g.maxreorg > 0
    /\ \E i \in 1..Len(g.eventlist) : ~g.eventlist[i].mining


\* C35: the mined counts add up to the number of blocks created after the
\* genesis block, which is the next id to be given minus the genesis id minus
\* one; each miner's count is the number of blocks created with it as miner.
C35_MinedIsBlocksCreated ==
    /\ SumMined(g) = g.baseblockid + Len(g.blocks) - GenesisId - 1
    /\ SumMined(g) = Cardinality(MinedEntries)
    /\ \A mi \in Miners(g) :
          g.miners[mi].mined = Cardinality({k \in MinedEntries : ghist[k][2] = mi})

\* Two miners have mined, blocks have been discarded, and a miner has mined
\* more blocks than g.blocks still holds of it.
C35_Witness ==
    /\ g.baseblockid > GenesisId
    /\ \E m1, m2 \in Miners(g) :
          /\ m1 # m2
          /\ g.miners[m1].mined > 0
          /\ g.miners[m2].mined >
                 Cardinality({i \in 1..Len(g.blocks) : g.blocks[i].miner = m2})
    /\ \E k \in 1..Len(ghist) : ghist[k][1] = "switch"

\* The same in the engine of src/minesim.go, whose genesis block has id
\* FirstId: the sum, and the count of a miner step by step.
BestMinedIsBlocksCreated ==
    pc # "panic" => SumMined(g) = g.baseblockid + Len(g.blocks) - FirstId - 1

BestMinedCountsOwnBlocks ==
    [][pc' # "panic" =>
          LET n == (g'.baseblockid + Len(g'.blocks)) - (g.baseblockid + Len(g.blocks))
          IN  /\ n \in {0, 1}
              /\ \A mi \in Miners(g) :
                    g'.miners[mi].mined - g.miners[mi].mined =
                        IF n = 1 /\ g'.blocks[Len(g'.blocks)].miner = mi THEN 1 ELSE 0]_vars


\* The entry of fifo for the relayed block that the event ev brings.
Carried(ev) == fifo[CHOOSE k \in 1..Len(fifo) :
                        fifo[k].ev = ev /\ \A j \in 1..(k - 1) : fifo[j].ev # ev]

\* The step pops an event that relays a block and was pushed before the
\* pruning step that gave g.blocks its present base.
PoppedAcrossPrune ==
    /\ step'.kind \in {"ignored", "switch", "panic"}
    /\ Carried(step'.ev).base < g.baseblockid

\* C36: in the engine that prunes to a single tip, a relayed block that was
\* on its way during a pruning step is ignored, or the receiver switches to
\* the block that was relayed: the id of the event then resolves to the block
\* it resolved to when the event was pushed.
C36_RelayedIdKeepsItsBlock ==
    [][PoppedAcrossPrune =>
          \/ step'.kind = "ignored"
          \/ /\ step'.kind = "switch"
             /\ Latest(ghist, step'.ev.bid) = Carried(step'.ev).made]_vars

\* Relayed blocks on their way during a pruning step are ignored (their id
\* is below the base), or switched to.
PrunedRelayIgnored ==
    /\ step.kind = "ignored"
    /\ step.ev.bid < g.baseblockid

\* Every miner's tip is in g.blocks, and the event list is not empty, while
\* the loop runs.
TipsResolve ==
    pc \in {"loop", "pop"} =>
        /\ g.eventlist # << >>
        /\ \A mi \in Miners(g) : validblock(g, g.miners[mi].tip)
        /\ \A k \in DOMAIN g.tips : g.tips[k] > 0


\* The blocks created by the engine of src/minesim.go, from its history: the
\* entry of a block, and the blocks from id down to the genesis block
\* (excluded).
MadeBlock(id) == ghist[CHOOSE k \in 1..Len(ghist) : ghist[k].id = id]

RECURSIVE BestAncestors(_)
BestAncestors(id) ==
    IF id = FirstId THEN {} ELSE {id} \union BestAncestors(MadeBlock(id).parent)

\* Main is between two events, or has ended.
BetweenEvents == pc \in {"loop", "pop", "done"}

\* C37: in src/minesim.go, between events, a miner's credit is the number of
\* blocks it mined among the ancestors of g.bestblockid (itself included, the
\* genesis block excluded); the credits add up to the height of
\* g.bestblockid, and 0 <= credit <= mined.
C37_CreditIsMinedOnBestChain ==
    BetweenEvents =>
        /\ \A mi \in Miners(g) :
              /\ g.miners[mi].credit =
                     Cardinality({id \in BestAncestors(g.bestblockid) :
                                      MadeBlock(id).miner = mi})
              /\ 0 <= g.miners[mi].credit
              /\ g.miners[mi].credit <= g.miners[mi].mined
        /\ validblock(g, g.bestblockid)
        /\ SumCredit(g) = getheight(g, g.bestblockid)

\* A reorg has moved credit from one miner to another, after blocks were
\* discarded.
C37_Witness ==
    /\ step.kind = "reorg"
    /\ g.baseblockid > FirstId
    /\ \E m1, m2 \in Miners(g) :
          /\ m1 # m2
          /\ g.miners[m1].credit > 0
          /\ g.miners[m2].credit < g.miners[m2].mined


\* g.bestblockid is in g.blocks and no block created so far is higher.
BestIsHighest ==
    /\ validblock(g, g.bestblockid)
    /\ \A k \in 1..Len(ghist) : ghist[k].height <= getheight(g, g.bestblockid)

\* The block where the lockstep walk from dec and inc ends; Panic when the
\* walk leaves g.blocks.
RECURSIVE walkEnd(_, _, _)
walkEnd(G, dec, inc) ==
    IF dec = inc THEN dec
    ELSE IF ~validblock(G, dec) \/ ~validblock(G, inc) THEN Panic
    ELSE walkEnd(G, getblock(G, dec).parent, getblock(G, inc).parent)

\* The blocks the walk takes a credit from or gives a credit to.
RECURSIVE walked(_, _, _)
walked(G, dec, inc) ==
    IF dec = inc THEN {}
    ELSE IF ~validblock(G, dec) \/ ~validblock(G, inc) THEN {dec, inc}
    ELSE {dec, inc} \union walked(G, getblock(G, dec).parent, getblock(G, inc).parent)

\* The step is the mining branch at its third case: the miner was not on the
\* best block, and its new block is higher than the best block.
ReorgRuns ==
    /\ step'.kind \in {"reorg", "panic"}
    /\ step'.ev.blockid <= 0
    /\ validblock(g, g.miners[step'.ev.to].current)
    /\ validblock(g, g.bestblockid)

\* C38: in src/minesim.go g.bestblockid is a block of the greatest height
\* created so far; when the reorg branch runs, the miner's previous block and
\* the old best block have the same height, and the walk that moves the
\* credit ends at a block of g.blocks that both descend from: every block it
\* visits is in g.blocks and has a miner, none is the genesis block.
C38_ReorgWalkStaysInArena ==
    [][/\ BetweenEvents' => BestIsHighest'
       /\ ReorgRuns =>
             LET prev == g.miners[step'.ev.to].current
                 end == walkEnd(g, g.bestblockid, prev)
             IN  /\ getheight(g, prev) = getheight(g, g.bestblockid)
                 /\ step'.kind = "reorg"
                 /\ end # Panic
                 /\ validblock(g, end)
                 /\ onChain(g, end, prev) /\ onChain(g, end, g.bestblockid)
                 /\ \A b \in walked(g, g.bestblockid, prev) :
                       /\ validblock(g, b)
                       /\ b # FirstId
                       /\ getblock(g, b).miner \in Miners(g)
                       /\ ~(onChain(g, b, prev) /\ onChain(g, b, g.bestblockid))]_vars

\* A reorg has run after blocks were discarded: two blocks of the height of
\* the old best block exist.
C38_Witness ==
    /\ step.kind = "reorg"
    /\ g.baseblockid > FirstId
    /\ \E j, k \in 1..Len(ghist) :
          /\ j # k
          /\ ghist[j].height = ghist[k].height
          /\ ghist[j].height + 1 = getheight(g, g.bestblockid)
          /\ ghist[j].id >= g.baseblockid /\ ghist[k].id >= g.baseblockid


\* The miners that mine on the block k.
MiningOn(G, k) == {mi \in Miners(G) : G.miners[mi].current = k}

\* g.tips counts, for each block, the miners that mine on it, and has no
\* entry for a block no miner mines on.
TipsCountMiners ==
    /\ \A k \in DOMAIN g.tips :
          g.tips[k] > 0 /\ g.tips[k] = Cardinality(MiningOn(g, k))
    /\ \A mi \in Miners(g) :
          g.miners[mi].current # 0 => g.miners[mi].current \in DOMAIN g.tips

\* g.bestblockid and every miner's block are in g.blocks.
BestAndTipsResolve ==
    /\ validblock(g, g.bestblockid)
    /\ \A mi \in Miners(g) : validblock(g, g.miners[mi].current)

\* C39: in src/minesim.go g.tips holds for each block the number of miners
\* mining on it, with no zero entry; the pruning loop runs only when all
\* miners mine on one block T, ends with g.baseblockid = T, keeps every block
\* from T on as it was, and g.bestblockid and every miner's block are in
\* g.blocks from then on.
C39_TipsExactAndPruneToTip ==
    [][/\ TipsCountMiners'
       /\ BetweenEvents' => BestAndTipsResolve'
       /\ step'.kind = "prune" =>
             \E T \in DOMAIN g.tips :
                /\ \A mi \in Miners(g) : g.miners[mi].current = T
                /\ pc' # "panic"
                /\ g' = pruneLoop(g)
                /\ g'.baseblockid = T
                /\ g'.baseblockid + Len(g'.blocks) = g.baseblockid + Len(g.blocks)
                /\ \A id \in T..(g.baseblockid + Len(g.blocks) - 1) :
                      /\ validblock(g', id)
                      /\ getblock(g', id) = getblock(g, id)]_vars

\* The pruning loop has discarded blocks and kept a block created after the
\* new base, which no miner mines on.
C39_Witness ==
    /\ step.kind = "prune"
    /\ g.baseblockid > FirstId + 1
    /\ Len(g.blocks) > 1
    /\ g.bestblockid = g.baseblockid

====
